---- MODULE Spec2Model ----
\* Model of the Twitch developer hub server: the token controller
\* (generate / device flow / authorization code / validate / refresh), the
\* webhook controller (create / delete / list / sync), the configuration
\* controller, the Twitch API service they call, the secret codec and the
\* persisted tables.
EXTENDS Integers, Sequences, FiniteSets, TLC

\* ------------------------------------------------------------------ bounds
MaxIssued == 3        \* token responses the provider ever issues

Users == {"u1", "u2"}
TokenOrder == <<"t1", "t2", "t3", "t4">>
ExpiresIns == {3}
Times == {10, 20}
DeviceCodes == {"dc1"}
ReqDeviceCodes == {"dc1", "bogus"}
ScopeSets == {{}, {"chat:read"}}
Undefined == "undefined"
NoSecret == -1
ClientIds == {"clientA", "clientB"}
SecretInputs == {NoSecret, 7}
NameInputs == {Undefined, "", "mine"}
Names == {"mine"}
Subjects == {[login |-> "alice", id |-> "1001"]}
States == {"xyz"}
SubOrder == <<"sub1", "sub2">>
SubIds == {SubOrder[i] : i \in DOMAIN SubOrder}
ReqWebhookIds == SubIds \cup {"wX"}
EventTypes == {"stream.online"}
Conditions == {"b1"}
CallbackUrls == {"https://cb"}
Modulus == 64
MasterKey == 5

NullStr == "null"
NullTime == -1
NoRow == [absent |-> TRUE]
NullEnc == [salt |-> 0, iv |-> 0, tag |-> 0, data |-> 0]

VARIABLES twitchConfigs, savedTokens, webhooks, sessions, subscriptions, issued, minted

\* the codec at work: the text given to encrypt, the stored string, and what
\* decrypt made of it
VARIABLES plain, encryptedData, decrypted

\* the handlers that have started and not yet answered, each with its position
\* and what it holds in local variables
VARIABLES inflight

\* the token page of the client: the ref of the interval timer, the device
\* flow shown, the requests awaiting their answer, whether the page is mounted,
\* its two flags, the interval timers the browser runs, and the number of
\* device flows started
VARIABLES pollingIntervalRef, deviceFlow, polls, mounted
VARIABLES showDeviceFlowModal, isSubmitting, timers, flows

page == <<pollingIntervalRef, deviceFlow, polls, mounted,
          showDeviceFlowModal, isSubmitting, timers, flows>>

\* what the handlers of the tables leave alone
aside == <<plain, encryptedData, decrypted, inflight, page>>

vars == <<twitchConfigs, savedTokens, webhooks, sessions, subscriptions, issued, minted,
          aside>>

NotRun == [none |-> TRUE]

\* the null of the ref and of the device flow shown; flows and their timers
\* are numbered from 1
NoFlow == 0

\* the page as it mounts
PageIdle ==
    /\ pollingIntervalRef = NoFlow
    /\ deviceFlow = NoFlow
    /\ polls = {}
    /\ mounted = TRUE
    /\ showDeviceFlowModal = FALSE
    /\ isSubmitting = FALSE
    /\ timers = {}
    /\ flows = 0

\* no codec call made, no handler in progress, the page mounted and at rest
AsideIdle ==
    /\ plain = <<>>
    /\ encryptedData = <<>>
    /\ decrypted = NotRun
    /\ inflight = {}
    /\ PageIdle

\* the ids of the saved_tokens rows there can be, and the ids a request can name
TokenIds == DOMAIN savedTokens

ReqTokenIds == TokenIds \cup {"tX"}

\* the ids a request can name for a configuration: those of the table and one
\* that no row ever has
ConfigIds == DOMAIN twitchConfigs \cup {"cfgX"}

\* ------------------------------------------------------------------ codec
\* key derivation from the master secret and the salt
getKey(salt) == (MasterKey * (salt + 1)) % Modulus

\* authentication tag over key, iv and ciphertext
AuthTag(key, iv, data) == (key + 3 * iv + 7 * data + 1) % Modulus

encrypt_TagOverText(text, salt, iv) ==
    LET key == getKey(salt)
        data == (text + key + iv) % Modulus
    IN  [salt |-> salt, iv |-> iv, tag |-> AuthTag(key, iv, text), data |-> data]

encrypt(text, salt, iv) ==
    LET key == getKey(salt)
        data == (text + key + iv) % Modulus
    IN  [salt |-> salt, iv |-> iv, tag |-> AuthTag(key, iv, data), data |-> data]

DecryptError == -1

decrypt_Unverified(e) ==
    LET key == getKey(e.salt)
    IN  (e.data - key - e.iv) % Modulus

decrypt(e) ==
    LET key == getKey(e.salt)
    IN  IF AuthTag(key, e.iv, e.data) # e.tag
        THEN DecryptError
        ELSE (e.data - key - e.iv) % Modulus

\* crypto.randomBytes: the k-th draw of a handler is a value no earlier handler
\* drew (the handlers that encrypt each consume a provider token, so the count
\* of issued tokens numbers them)
randomBytes(k) == 2 * issued + k

\* ------------------------------------------------------------------ tables
FindConfig(id) == IF id \in DOMAIN twitchConfigs THEN twitchConfigs[id] ELSE NoRow

FindToken(id) == IF id \in DOMAIN savedTokens THEN savedTokens[id] ELSE NoRow

\* webhooks rows are keyed by subscriptionId, which the unique index makes a key
FindWebhook(id) == IF id \in DOMAIN webhooks THEN webhooks[id] ELSE NoRow

ClientIdOf(twitchConfigId) ==
    IF FindConfig(twitchConfigId) = NoRow THEN NullStr
    ELSE FindConfig(twitchConfigId).clientId

\* name || null
OrNull(v) == IF v \in {Undefined, ""} THEN NullStr ELSE v

\* ids of the rows of a table (a function from ids to rows) owned by user u
RowsOf(table, u) ==
    {id \in DOMAIN table : table[id] # NoRow /\ table[id].userId = u}

FreeTokenIds == {id \in TokenIds : savedTokens[id] = NoRow}

\* the id the database gives the next saved_tokens row
NewTokenId ==
    LET free == {i \in DOMAIN TokenOrder : TokenOrder[i] \in FreeTokenIds}
    IN  IF free = {} THEN TokenOrder[1]
        ELSE TokenOrder[CHOOSE i \in free : \A j \in free : i <= j]

\* the persisted and provider-side state a handler may read and write
Db == [twitchConfigs |-> twitchConfigs, savedTokens |-> savedTokens,
       webhooks |-> webhooks, sessions |-> sessions,
       subscriptions |-> subscriptions, issued |-> issued]

\* ------------------------------------------------------------------ provider
\* An HTTP answer of the provider as axios reports it: status 0 is a request
\* that got no response (network failure), message is response.data.message.
NetErr == [status |-> 0, message |-> NullStr, data |-> NoRow]

Rejected(status, message) == [status |-> status, message |-> message, data |-> NoRow]

Granted(data) == [status |-> 200, message |-> NullStr, data |-> data]

TokenData(scopes, e) ==
    [access_token |-> 2 * issued + 3, refresh_token |-> 2 * issued + 4,
     expires_in |-> e, scope |-> scopes]

\* answers to a client-credentials request
AppTokenResponses ==
    {NetErr, Rejected(400, "invalid client"), Rejected(403, "invalid client secret")}
    \cup {Granted([access_token |-> 2 * issued + 3, expires_in |-> e]) : e \in ExpiresIns}

NoSession == [state |-> "none", clientId |-> NullStr, scopes |-> {}, subject |-> NoRow]

SessionOf(deviceCode) ==
    IF deviceCode \in DOMAIN sessions THEN sessions[deviceCode] ELSE NoSession

FreeDeviceCodes == {dc \in DeviceCodes : sessions[dc].state = "none"}

\* answers to POST /device: a session under a code the provider never used
DeviceResponses ==
    {NetErr, Rejected(400, "invalid client")}
    \cup {Granted([device_code |-> dc, user_code |-> "ABCD", verification_uri |-> "uri",
                   expires_in |-> 1800, interval |-> i]) :
            dc \in FreeDeviceCodes, i \in {0, 7}}

\* answers to POST /token with the device_code grant, by the state of the session
PollResponses(clientId, deviceCode) ==
    LET s == SessionOf(deviceCode)
        mine == s.clientId = clientId
    IN  {NetErr, Rejected(500, NullStr)} \cup
        (IF mine /\ s.state = "pending"
           THEN {Rejected(400, "authorization_pending"), Rejected(400, "slow_down")}
         ELSE IF mine /\ s.state = "authorized"
           THEN {Granted(TokenData(s.scopes, e)) : e \in ExpiresIns}
         ELSE IF mine /\ s.state = "denied" THEN {Rejected(400, "access_denied")}
         ELSE IF mine /\ s.state = "expired" THEN {Rejected(400, "expired_token")}
         ELSE {Rejected(400, "invalid device code")})

\* answers to POST /token with the authorization_code grant
ExchangeResponses ==
    {NetErr, Rejected(400, "Invalid authorization code")}
    \cup {Granted(TokenData(sc, e)) : sc \in ScopeSets, e \in ExpiresIns}

\* answers to POST /token with the refresh_token grant
RefreshResponses ==
    {NetErr, Rejected(400, "Invalid refresh token")}
    \cup {Granted(TokenData(sc, e)) : sc \in ScopeSets, e \in ExpiresIns}

\* answers to GET /validate
ValidateResponses ==
    {NetErr, Rejected(401, "invalid access token")}
    \cup {Granted([client_id |-> "client", login |-> sub.login, user_id |-> sub.id,
                   scopes |-> {}, expires_in |-> 1]) : sub \in Subjects}

\* axios resolves on a 2xx status and throws on any other
Ok(r) == r.status \in {200, 202, 204}

\* the answers to the validation a handler makes after the answer r to its grant
\* request: it makes none unless the grant succeeded
ValidateAfter(r) == IF Ok(r) THEN ValidateResponses ELSE {NetErr}

\* Date.now() as the handler reads it after a grant: any time of Times
ClockAfter(r) == IF Ok(r) THEN Times ELSE {10}

\* ------------------------------------------------------------------ twitchApiService
Thrown(message) == [ok |-> FALSE, message |-> message]

generateAppAccessToken(r) ==
    IF Ok(r)
    THEN [ok |-> TRUE, accessToken |-> r.data.access_token, expiresIn |-> r.data.expires_in]
    ELSE Thrown(IF r.message # NullStr THEN r.message
                ELSE "Failed to generate app access token")

validateToken(r) ==
    IF Ok(r)
    THEN [ok |-> TRUE, clientId |-> r.data.client_id, login |-> r.data.login,
          scopes |-> r.data.scopes, userId |-> r.data.user_id,
          expiresIn |-> r.data.expires_in]
    ELSE Thrown("Invalid or expired token")

Scopes(r) == r.data.scope

startDeviceFlow(r) ==
    IF Ok(r)
    THEN [ok |-> TRUE, deviceCode |-> r.data.device_code, userCode |-> r.data.user_code,
          verificationUri |-> r.data.verification_uri, expiresIn |-> r.data.expires_in,
          interval |-> IF r.data.interval # 0 THEN r.data.interval ELSE 5]
    ELSE Thrown(IF r.message # NullStr THEN r.message ELSE "Failed to start device flow")

TokenResult(r) ==
    [ok |-> TRUE, pending |-> FALSE, accessToken |-> r.data.access_token,
     refreshToken |-> r.data.refresh_token, expiresIn |-> r.data.expires_in,
     scopes |-> Scopes(r)]

Pending == [ok |-> TRUE, pending |-> TRUE]

pollDeviceToken_SlowDownThrows(r) ==
    IF Ok(r) THEN TokenResult(r)
    ELSE IF r.status = 400 /\ r.message = "authorization_pending" THEN Pending
    ELSE IF r.status = 400 /\ r.message \in {"access_denied", "expired_token"}
      THEN Thrown(r.message)
    ELSE Thrown("Failed to poll for device token")

pollDeviceToken(r) ==
    IF Ok(r) THEN TokenResult(r)
    ELSE IF r.status = 400 /\ r.message = "authorization_pending" THEN Pending
    ELSE IF r.status = 400 /\ r.message \in {"access_denied", "expired_token"}
      THEN Thrown(r.message)
    ELSE IF r.status = 400 /\ r.message = "slow_down" THEN Pending
    ELSE Thrown("Failed to poll for device token")

generateAuthorizationUrl(clientId, redirectUri, scopes, state) ==
    [client_id |-> clientId, redirect_uri |-> redirectUri, response_type |-> "code",
     scope |-> scopes, state |-> state]

exchangeCodeForToken(r) ==
    IF Ok(r) THEN TokenResult(r)
    ELSE Thrown(IF r.message # NullStr THEN r.message
                ELSE "Failed to exchange authorization code")

refreshAccessToken(r) ==
    IF Ok(r) THEN TokenResult(r)
    ELSE Thrown(IF r.message # NullStr THEN r.message
                ELSE "Failed to refresh access token")

\* ------------------------------------------------------------------ tokenController
\* A handler is an operator from the request, the provider's answers and the
\* random draws of encrypt to its result: the HTTP status and body it answers,
\* the provider calls it made (with the owners of the secrets each carried)
\* and the state it leaves. feasible is FALSE when the result needs a row or a
\* provider token beyond the model's bounds.
Call(fn, owners) == [fn |-> fn, owners |-> owners]

Result(status, body, cs, db) ==
    [status |-> status, body |-> body, calls |-> cs, db |-> db, feasible |-> TRUE]

Fail(status, kind, cs) == Result(status, [error |-> kind], cs, Db)

Apply(o) ==
    /\ o.feasible
    /\ twitchConfigs' = o.db.twitchConfigs
    /\ savedTokens' = o.db.savedTokens
    /\ webhooks' = o.db.webhooks
    /\ sessions' = o.db.sessions
    /\ subscriptions' = o.db.subscriptions
    /\ issued' = o.db.issued
    /\ UNCHANGED aside

\* the number of saved_tokens rows a result adds
Created(o) ==
    Cardinality({id \in TokenIds : savedTokens[id] = NoRow /\ o.db.savedTokens[id] # NoRow})

CanMint == FreeTokenIds # {} /\ issued < MaxIssued

AppTokenRow_NoExpiry(u, twitchConfigId, name, g, dateNow) ==
    [userId |-> u, twitchConfigId |-> twitchConfigId,
     tokenType |-> "app",
     accessToken |-> encrypt(g.accessToken, randomBytes(1), randomBytes(2)),
     refreshToken |-> NullEnc,
     scopes |-> {},
     channelLogin |-> NullStr, channelId |-> NullStr,
     name |-> OrNull(name),
     expiresAt |-> NullTime]

\* the row generateAppToken creates
AppTokenRow(u, twitchConfigId, name, g, dateNow) ==
    [userId |-> u, twitchConfigId |-> twitchConfigId,
     tokenType |-> "app",
     accessToken |-> encrypt(g.accessToken, randomBytes(1), randomBytes(2)),
     refreshToken |-> NullEnc,
     scopes |-> {},
     channelLogin |-> NullStr, channelId |-> NullStr,
     name |-> OrNull(name),
     expiresAt |-> dateNow + g.expiresIn]

generateAppToken(u, twitchConfigId, name, r, dateNow) ==
    LET twitchConfig == FindConfig(twitchConfigId)
    IN  IF twitchConfig = NoRow THEN Fail(404, "Not found", <<>>)
        ELSE IF twitchConfig.userId # u THEN Fail(403, "Forbidden", <<>>)
        ELSE
        LET clientSecret == decrypt(twitchConfig.clientSecret)
            g == generateAppAccessToken(r)
            cs == <<Call("generateAppAccessToken", {twitchConfig.userId})>>
        IN  IF clientSecret = DecryptError THEN Fail(500, "Server error", <<>>)
            ELSE IF ~g.ok THEN Fail(500, g.message, cs)
            ELSE
            LET savedToken == AppTokenRow(u, twitchConfigId, name, g, dateNow)
            IN  [Result(201, [id |-> NewTokenId, accessToken |-> g.accessToken], cs,
                        [Db EXCEPT !.savedTokens[NewTokenId] = savedToken,
                                   !.issued = issued + 1])
                 EXCEPT !.feasible = CanMint]

UserTokenRow_RelativeExpiry(u, twitchConfigId, name, tokenData, validation, dateNow) ==
    [userId |-> u, twitchConfigId |-> twitchConfigId,
     tokenType |-> "user",
     accessToken |-> encrypt(tokenData.accessToken, randomBytes(1), randomBytes(2)),
     refreshToken |-> encrypt(tokenData.refreshToken, randomBytes(3), randomBytes(4)),
     scopes |-> tokenData.scopes,
     channelLogin |-> validation.login, channelId |-> validation.userId,
     name |-> OrNull(name),
     expiresAt |-> tokenData.expiresIn]

\* the row pollUserToken and handleAuthorizationCallback create
UserTokenRow(u, twitchConfigId, name, tokenData, validation, dateNow) ==
    [userId |-> u, twitchConfigId |-> twitchConfigId,
     tokenType |-> "user",
     accessToken |-> encrypt(tokenData.accessToken, randomBytes(1), randomBytes(2)),
     refreshToken |-> encrypt(tokenData.refreshToken, randomBytes(3), randomBytes(4)),
     scopes |-> tokenData.scopes,
     channelLogin |-> validation.login, channelId |-> validation.userId,
     name |-> OrNull(name),
     expiresAt |-> dateNow + tokenData.expiresIn]

getToken(u, id) ==
    LET token == FindToken(id)
    IN  IF token = NoRow THEN Fail(404, "Not found", <<>>)
        ELSE IF token.userId # u THEN Fail(403, "Forbidden", <<>>)
        ELSE IF decrypt(token.accessToken) = DecryptError
          THEN Fail(500, "Server error", <<>>)
        ELSE Result(200, [id |-> id, accessToken |-> decrypt(token.accessToken),
                          tokenType |-> token.tokenType], <<>>, Db)

deleteToken(u, id) ==
    LET existingToken == FindToken(id)
    IN  IF existingToken = NoRow THEN Fail(404, "Not found", <<>>)
        ELSE IF existingToken.userId # u THEN Fail(403, "Forbidden", <<>>)
        ELSE Result(200, [message |-> "Token deleted successfully"], <<>>,
                    [Db EXCEPT !.savedTokens[id] = NoRow])

startUserToken(u, twitchConfigId, scopes, r) ==
    LET twitchConfig == FindConfig(twitchConfigId)
    IN  IF twitchConfig = NoRow THEN Fail(404, "Not found", <<>>)
        ELSE IF twitchConfig.userId # u THEN Fail(403, "Forbidden", <<>>)
        ELSE
        LET deviceFlowData == startDeviceFlow(r)
            cs == <<Call("startDeviceFlow", {})>>
        IN  IF ~deviceFlowData.ok THEN Fail(500, deviceFlowData.message, cs)
            ELSE Result(200, deviceFlowData, cs,
                        [Db EXCEPT !.sessions[deviceFlowData.deviceCode] =
                            [state |-> "pending", clientId |-> twitchConfig.clientId,
                             scopes |-> scopes, subject |-> NoRow]])

PollFailure_NoExpired(message, cs) ==
    IF message = "access_denied" THEN Result(403, [status |-> "denied"], cs, Db)
    ELSE Fail(500, message, cs)

\* the catch block of pollUserToken
PollFailure(message, cs) ==
    IF message = "access_denied" THEN Result(403, [status |-> "denied"], cs, Db)
    ELSE IF message = "expired_token" THEN Result(400, [status |-> "expired"], cs, Db)
    ELSE Fail(500, message, cs)

\* the provider's side of a token grant: the device code is spent, a token issued
Consumed(r, deviceCode) ==
    IF Ok(r)
    THEN [Db EXCEPT !.sessions[deviceCode].state = "consumed", !.issued = issued + 1]
    ELSE Db

pollUserToken(u, twitchConfigId, deviceCode, name, r, v, dateNow) ==
    LET twitchConfig == FindConfig(twitchConfigId)
    IN  IF twitchConfig = NoRow THEN Fail(404, "Not found", <<>>)
        ELSE IF twitchConfig.userId # u THEN Fail(403, "Forbidden", <<>>)
        ELSE
        LET tokenData == pollDeviceToken(r)
            validation == validateToken(v)
            c1 == <<Call("pollDeviceToken", {})>>
            c2 == c1 \o <<Call("validateToken", {u})>>
            after == Consumed(r, deviceCode)
        IN  IF ~tokenData.ok THEN PollFailure(tokenData.message, c1)
            ELSE IF tokenData.pending THEN Result(200, [status |-> "pending"], c1, Db)
            ELSE IF ~validation.ok
              THEN [Result(500, [error |-> validation.message], c2, after)
                    EXCEPT !.feasible = issued < MaxIssued]
            ELSE [Result(201, [status |-> "success", id |-> NewTokenId,
                               accessToken |-> tokenData.accessToken,
                               refreshToken |-> tokenData.refreshToken], c2,
                         [after EXCEPT !.savedTokens[NewTokenId] =
                             UserTokenRow(u, twitchConfigId, name, tokenData, validation, dateNow)])
                  EXCEPT !.feasible = CanMint]

RedirectUri == "http://localhost:5173/oauth/callback"

startAuthorizationFlow(u, twitchConfigId, scopes, state) ==
    LET twitchConfig == FindConfig(twitchConfigId)
    IN  IF twitchConfig = NoRow \/ twitchConfig.userId # u
        THEN Fail(404, "Not found", <<>>)
        ELSE Result(200,
                    [authorizationUrl |->
                        generateAuthorizationUrl(twitchConfig.clientId, RedirectUri,
                                                 scopes, state),
                     redirectUri |-> RedirectUri], <<>>, Db)

handleAuthorizationCallback(u, twitchConfigId, name, r, v, dateNow) ==
    LET twitchConfig == FindConfig(twitchConfigId)
    IN  IF twitchConfig = NoRow \/ twitchConfig.userId # u
        THEN Fail(404, "Not found", <<>>)
        ELSE
        LET clientSecret == decrypt(twitchConfig.clientSecret)
            tokenData == exchangeCodeForToken(r)
            validation == validateToken(v)
            c1 == <<Call("exchangeCodeForToken", {twitchConfig.userId})>>
            c2 == c1 \o <<Call("validateToken", {u})>>
            after == IF Ok(r) THEN [Db EXCEPT !.issued = issued + 1] ELSE Db
        IN  IF clientSecret = DecryptError THEN Fail(500, "Server error", <<>>)
            ELSE IF ~tokenData.ok THEN Fail(500, tokenData.message, c1)
            ELSE IF ~validation.ok
              THEN [Result(500, [error |-> validation.message], c2, after)
                    EXCEPT !.feasible = issued < MaxIssued]
            ELSE [Result(201, [id |-> NewTokenId,
                               accessToken |-> tokenData.accessToken,
                               refreshToken |-> tokenData.refreshToken], c2,
                         [after EXCEPT !.savedTokens[NewTokenId] =
                             UserTokenRow(u, twitchConfigId, name, tokenData, validation, dateNow)])
                  EXCEPT !.feasible = CanMint]

ValidateFailure_Escalates(message, cs) == Fail(500, message, cs)

\* the catch block of validateSavedToken
ValidateFailure(message, cs) ==
    IF message = "Invalid or expired token" THEN Result(200, [valid |-> FALSE], cs, Db)
    ELSE Fail(500, message, cs)

validateSavedToken(u, id, v) ==
    LET token == FindToken(id)
    IN  IF token = NoRow THEN Fail(404, "Not found", <<>>)
        ELSE IF token.userId # u THEN Fail(403, "Forbidden", <<>>)
        ELSE
        LET accessToken == decrypt(token.accessToken)
            validation == validateToken(v)
            cs == <<Call("validateToken", {token.userId})>>
        IN  IF accessToken = DecryptError THEN Fail(500, "Server error", <<>>)
            ELSE IF ~validation.ok THEN ValidateFailure(validation.message, cs)
            ELSE Result(200, [valid |-> TRUE, clientId |-> validation.clientId,
                              login |-> validation.login, userId |-> validation.userId],
                        cs, Db)

CanRefresh_Unchecked(token) == TRUE

\* only user tokens have refresh tokens
CanRefresh(token) == token.tokenType = "user" /\ token.refreshToken # NullEnc

UpdatedToken_KeepsScopes(token, newTokenData, dateNow) ==
    [token EXCEPT
       !.accessToken = encrypt(newTokenData.accessToken, randomBytes(1), randomBytes(2)),
       !.refreshToken = encrypt(newTokenData.refreshToken, randomBytes(3), randomBytes(4)),
       !.expiresAt = dateNow + newTokenData.expiresIn]

\* the row after prisma.savedToken.update with the new token data
UpdatedToken(token, newTokenData, dateNow) ==
    [token EXCEPT
       !.accessToken = encrypt(newTokenData.accessToken, randomBytes(1), randomBytes(2)),
       !.refreshToken = encrypt(newTokenData.refreshToken, randomBytes(3), randomBytes(4)),
       !.scopes = newTokenData.scopes,
       !.expiresAt = dateNow + newTokenData.expiresIn]

refreshToken(u, id, r, dateNow) ==
    LET token == FindToken(id)
    IN  IF token = NoRow THEN Fail(404, "Not found", <<>>)
        ELSE IF token.userId # u THEN Fail(403, "Forbidden", <<>>)
        ELSE IF ~CanRefresh(token)
          THEN Fail(400, "This token cannot be refreshed", <<>>)
        ELSE
        LET twitchConfig == FindConfig(token.twitchConfigId)
            refreshTokenValue == decrypt(token.refreshToken)
            clientSecret == decrypt(twitchConfig.clientSecret)
            newTokenData == refreshAccessToken(r)
            cs == <<Call("refreshAccessToken", {token.userId, twitchConfig.userId})>>
        IN  IF refreshTokenValue = DecryptError \/ clientSecret = DecryptError
              THEN Fail(500, "Server error", <<>>)
            ELSE IF ~newTokenData.ok THEN Fail(500, newTokenData.message, cs)
            ELSE [Result(200, [id |-> id, accessToken |-> newTokenData.accessToken,
                               refreshToken |-> newTokenData.refreshToken], cs,
                         [Db EXCEPT !.issued = issued + 1,
                                    !.savedTokens[id] = UpdatedToken(token, newTokenData, dateNow)])
                  EXCEPT !.feasible = issued < MaxIssued]

\* ------------------------------------------------------------------ EventSub provider
Accepted(data) == [status |-> 202, message |-> NullStr, data |-> data]

NoContent == [status |-> 204, message |-> NullStr, data |-> NoRow]

\* the id the provider gives its next subscription: one in use nowhere
FreeSubIds == {s \in SubIds : subscriptions[s] = NoRow /\ webhooks[s] = NoRow}

NewSubId ==
    LET free == {i \in DOMAIN SubOrder : SubOrder[i] \in FreeSubIds}
    IN  SubOrder[CHOOSE i \in free : \A j \in free : i <= j]

\* a subscription as the provider creates it: its callback is not yet verified
Subscription(id, clientId, type, condition, callback) ==
    [id |-> id, clientId |-> clientId, type |-> type, condition |-> condition,
     callback |-> callback, status |-> "webhook_callback_verification_pending",
     cost |-> 1]

\* answers to POST /eventsub/subscriptions
CreateSubResponses(clientId, type, condition, callback) ==
    {NetErr, Rejected(401, "Invalid OAuth token"),
     Rejected(409, "subscription already exists")}
    \cup (IF FreeSubIds = {} THEN {}
          ELSE {Accepted(Subscription(NewSubId, clientId, type, condition, callback))})

\* the subscriptions of one client application, in the provider's order
SubsOf(clientId) ==
    SelectSeq([i \in DOMAIN SubOrder |-> subscriptions[SubOrder[i]]],
              LAMBDA sub : sub # NoRow /\ sub.clientId = clientId)

\* the numbers of subscriptions the provider may put on one page of its list
MaxPageSize == 2

PageSizes == 1..MaxPageSize

\* the first page of the provider's list
FirstPage(subs, pageSize) ==
    SubSeq(subs, 1, IF Len(subs) < pageSize THEN Len(subs) ELSE pageSize)

\* the answer to a list request that succeeds: the first page, the number of
\* subscriptions on all pages, and a cursor when there is a further page
Listed(clientId, pageSize) ==
    Granted([data |-> FirstPage(SubsOf(clientId), pageSize),
             total |-> Len(SubsOf(clientId)),
             cursor |-> Len(SubsOf(clientId)) > pageSize])

\* answers to GET /eventsub/subscriptions
ListResponses(clientId) ==
    {NetErr, Rejected(401, "Invalid OAuth token")}
    \cup {Listed(clientId, pageSize) : pageSize \in PageSizes}

\* answers to DELETE /eventsub/subscriptions?id=
DeleteSubResponses(clientId, subscriptionId) ==
    {NetErr, Rejected(401, "Invalid OAuth token"), Rejected(404, "subscription not found")}
    \cup (IF /\ subscriptionId \in SubIds
             /\ subscriptions[subscriptionId] # NoRow
             /\ subscriptions[subscriptionId].clientId = clientId
          THEN {NoContent} ELSE {})

\* ------------------------------------------------------------------ webhookController
\* the catch block of a handler whose provider call threw
ProviderFailure(r, cs) ==
    IF r.status # 0 THEN Fail(r.status, "Twitch API error", cs)
    ELSE Fail(500, "Server error", cs)

\* the client id of the configuration a token row belongs to
TokenClient(id) ==
    IF FindToken(id) = NoRow THEN NullStr ELSE ClientIdOf(FindToken(id).twitchConfigId)

TokensOfKind(u, kind) ==
    {id \in TokenIds : /\ savedTokens[id] # NoRow
                       /\ savedTokens[id].userId = u
                       /\ savedTokens[id].tokenType = kind}

\* what findFirst can return: any matching row, or none when there is none
FindFirst(ids) == IF ids = {} THEN {"none"} ELSE ids

getAllWebhooks(u) ==
    Result(200, [webhooks |-> {webhooks[s] : s \in RowsOf(webhooks, u)}], <<>>, Db)

WebhookRow(userId, subscription, callbackUrl) ==
    [userId |-> userId, subscriptionId |-> subscription.id, type |-> subscription.type,
     condition |-> subscription.condition, callbackUrl |-> callbackUrl,
     status |-> subscription.status, cost |-> subscription.cost]

MayUse_AnyToken(token, userId) == TRUE

\* the permission test of createWebhook on the token it is asked to use
MayUse(token, userId) == token.userId = userId

createWebhook(u, tokenId, type, condition, callbackUrl, r) ==
    LET token == FindToken(tokenId)
    IN  IF token = NoRow THEN Fail(404, "Not found", <<>>)
        ELSE IF ~MayUse(token, u) THEN Fail(403, "Forbidden", <<>>)
        ELSE
        LET accessToken == decrypt(token.accessToken)
            cs == <<Call("createSubscription", {token.userId})>>
        IN  IF accessToken = DecryptError THEN Fail(500, "Server error", <<>>)
            ELSE IF ~Ok(r) THEN ProviderFailure(r, cs)
            ELSE
            LET subscription == r.data
                after == [Db EXCEPT !.subscriptions[subscription.id] = subscription]
                webhook == WebhookRow(u, subscription, callbackUrl)
            IN  IF webhooks[subscription.id] # NoRow
                  THEN Result(500, [error |-> "Server error"], cs, after)
                ELSE Result(201, [webhook |-> webhook], cs,
                            [after EXCEPT !.webhooks[subscription.id] = webhook])

deleteWebhook(u, id, tokenId, r) ==
    LET webhook == FindWebhook(id)
    IN  IF webhook = NoRow THEN Fail(404, "Not found", <<>>)
        ELSE IF webhook.userId # u THEN Fail(403, "Forbidden", <<>>)
        ELSE
        LET token == FindToken(tokenId)
            sent == token # NoRow /\ decrypt(token.accessToken) # DecryptError
            cs == IF sent THEN <<Call("deleteSubscription", {token.userId})>> ELSE <<>>
            after == IF sent /\ Ok(r)
                     THEN [Db EXCEPT !.subscriptions[webhook.subscriptionId] = NoRow]
                     ELSE Db
        IN  Result(200, [message |-> "Webhook deleted successfully"], cs,
                   [after EXCEPT !.webhooks[id] = NoRow])

getRemoteWebhooks(u, tokenId, r) ==
    LET token == FindToken(tokenId)
    IN  IF token = NoRow THEN Fail(404, "Not found", <<>>)
        ELSE
        LET accessToken == decrypt(token.accessToken)
            cs == <<Call("listSubscriptions", {token.userId})>>
        IN  IF accessToken = DecryptError THEN Fail(500, "Server error", <<>>)
            ELSE IF ~Ok(r) THEN ProviderFailure(r, cs)
            ELSE Result(200, [subscriptions |-> r.data.data, total |-> r.data.total],
                        cs, Db)

\* the row after updateMany writes the remote copy of a subscription over it
Overwritten(webhook, sub) ==
    [webhook EXCEPT !.status = sub.status, !.condition = sub.condition, !.cost = sub.cost]

\* the import loop of syncWebhooks over the subscriptions the provider listed:
\* st carries the webhooks table and the counters, thrown stops the loop
RECURSIVE Import(_, _, _, _)
Import(st, subs, localSubscriptionIds, u) ==
    IF subs = <<>> \/ st.thrown THEN st
    ELSE
    LET sub == Head(subs)
    IN  IF sub.id \notin localSubscriptionIds
        THEN IF st.hooks[sub.id] # NoRow
             THEN [st EXCEPT !.thrown = TRUE]
             ELSE Import([st EXCEPT !.hooks[sub.id] = WebhookRow(u, sub, sub.callback),
                                    !.imported = @ + 1],
                         Tail(subs), localSubscriptionIds, u)
        ELSE Import([st EXCEPT !.hooks[sub.id] = Overwritten(@, sub),
                               !.updated = @ + 1],
                    Tail(subs), localSubscriptionIds, u)

\* the body of the loop of syncWebhooks for one app token and the provider's
\* answer r to its list request
SyncToken(st, tokenId, r, u) ==
    LET token == FindToken(tokenId)
        twitchConfig == FindConfig(token.twitchConfigId)
        sent == decrypt(token.accessToken) # DecryptError
        st0 == IF sent
               THEN [st EXCEPT !.calls = Append(@, Call("listSubscriptions", {token.userId}))]
               ELSE st
    IN  IF ~sent \/ ~Ok(r) THEN st0
        ELSE
        LET remoteSubscriptions == r.data.data
            st1 == [st0 EXCEPT
                      !.total = @ + Len(remoteSubscriptions),
                      !.configsSynced =
                          Append(@, IF twitchConfig.name # NullStr
                                    THEN twitchConfig.name ELSE twitchConfig.clientId),
                      !.thrown = FALSE]
            localSubscriptionIds == RowsOf(st.hooks, u)
            st2 == Import(st1, remoteSubscriptions, localSubscriptionIds, u)
            remoteSubscriptionIds ==
                {remoteSubscriptions[i].id : i \in DOMAIN remoteSubscriptions}
            stale == localSubscriptionIds \ remoteSubscriptionIds
        IN  IF st2.thrown THEN st2
            ELSE [st2 EXCEPT
                    !.hooks = [s \in DOMAIN @ |-> IF s \in stale THEN NoRow ELSE @[s]],
                    !.removed = @ + Cardinality(stale)]

RECURSIVE SyncTokens(_, _, _, _)
SyncTokens(st, tokens, answers, u) ==
    IF tokens = <<>> THEN st
    ELSE SyncTokens(SyncToken(st, Head(tokens), answers[Head(tokens)], u),
                    Tail(tokens), answers, u)

\* the counters and the webhooks table as syncWebhooks starts its loop
SyncStart ==
    [hooks |-> webhooks, imported |-> 0, updated |-> 0, removed |-> 0, total |-> 0,
     configsSynced |-> <<>>, calls |-> <<>>, thrown |-> FALSE]

syncWebhooks_AbortsOnFailure(u, configId, tokens, answers) ==
    IF tokens = <<>> THEN Fail(404, "Not found", <<>>)
    ELSE IF \E i \in DOMAIN tokens : ~Ok(answers[tokens[i]])
    THEN Fail(500, "Server error", <<>>)
    ELSE
    LET st == SyncTokens(SyncStart, tokens, answers, u)
    IN  Result(200, [imported |-> st.imported, updated |-> st.updated,
                     removed |-> st.removed, total |-> st.total,
                     configsSynced |-> st.configsSynced],
               st.calls, [Db EXCEPT !.webhooks = st.hooks])

\* tokens is the result of findMany in the order the database returns it,
\* answers the provider's answer to the list request of each token
syncWebhooks(u, configId, tokens, answers) ==
    IF tokens = <<>> THEN Fail(404, "Not found", <<>>)
    ELSE
    LET st == SyncTokens(SyncStart, tokens, answers, u)
    IN  Result(200, [imported |-> st.imported, updated |-> st.updated,
                     removed |-> st.removed, total |-> st.total,
                     configsSynced |-> st.configsSynced],
               st.calls, [Db EXCEPT !.webhooks = st.hooks])

\* ------------------------------------------------------------------ twitchConfigController
ConfigOrder == <<"cfgA", "cfgB", "cfgC">>

FreeConfigIds == {id \in DOMAIN twitchConfigs : twitchConfigs[id] = NoRow}

\* the id the database gives the next twitch_configs row
NewConfigId ==
    LET free == {i \in DOMAIN ConfigOrder : ConfigOrder[i] \in FreeConfigIds}
    IN  IF free = {} THEN ConfigOrder[1]
        ELSE ConfigOrder[CHOOSE i \in free : \A j \in free : i <= j]

\* findUnique on the (userId, clientId) index
FindByClientId(u, clientId) ==
    {id \in RowsOf(twitchConfigs, u) : twitchConfigs[id].clientId = clientId}

TokensCount(id) ==
    Cardinality({t \in TokenIds :
                    savedTokens[t] # NoRow /\ savedTokens[t].twitchConfigId = id})

DecryptedConfig(id, config) ==
    [id |-> id, clientId |-> config.clientId,
     clientSecret |-> decrypt(config.clientSecret), name |-> config.name]

getAllConfigs(u) ==
    LET mine == RowsOf(twitchConfigs, u)
    IN  IF \E id \in mine : decrypt(twitchConfigs[id].clientSecret) = DecryptError
        THEN Fail(500, "Server error", <<>>)
        ELSE Result(200, [configs |-> {DecryptedConfig(id, twitchConfigs[id]) : id \in mine}],
                    <<Call("decrypt", {twitchConfigs[id].userId : id \in mine})>>, Db)

getConfig(u, id) ==
    LET config == FindConfig(id)
    IN  IF config = NoRow THEN Fail(404, "Not found", <<>>)
        ELSE IF config.userId # u THEN Fail(403, "Forbidden", <<>>)
        ELSE IF decrypt(config.clientSecret) = DecryptError
          THEN Fail(500, "Server error", <<>>)
        ELSE Result(200, [config |-> DecryptedConfig(id, config)],
                    <<Call("decrypt", {config.userId})>>, Db)

createConfig(u, clientId, clientSecret, name) ==
    IF FindByClientId(u, clientId) # {} THEN Fail(409, "Conflict", <<>>)
    ELSE
    LET config == [userId |-> u, clientId |-> clientId,
                   clientSecret |-> encrypt(clientSecret, randomBytes(1), randomBytes(2)),
                   name |-> OrNull(name)]
    IN  [Result(201, [config |-> DecryptedConfig(NewConfigId, config)], <<>>,
                [Db EXCEPT !.twitchConfigs[NewConfigId] = config])
         EXCEPT !.feasible = FreeConfigIds # {}]

updateConfig_NoConflictCheck(u, id, clientId, clientSecret, name) ==
    LET existingConfig == FindConfig(id)
    IN  IF existingConfig = NoRow THEN Fail(404, "Not found", <<>>)
        ELSE IF existingConfig.userId # u THEN Fail(403, "Forbidden", <<>>)
        ELSE
        LET updatedConfig ==
                [existingConfig EXCEPT
                   !.clientId = IF clientId # Undefined THEN clientId ELSE @,
                   !.clientSecret =
                       IF clientSecret # NoSecret
                       THEN encrypt(clientSecret, randomBytes(1), randomBytes(2)) ELSE @,
                   !.name = IF name # Undefined THEN OrNull(name) ELSE @]
        IN  Result(200, [config |-> DecryptedConfig(id, updatedConfig)], <<>>,
                   [Db EXCEPT !.twitchConfigs[id] = updatedConfig])

updateConfig(u, id, clientId, clientSecret, name) ==
    LET existingConfig == FindConfig(id)
    IN  IF existingConfig = NoRow THEN Fail(404, "Not found", <<>>)
        ELSE IF existingConfig.userId # u THEN Fail(403, "Forbidden", <<>>)
        ELSE IF /\ clientId \notin {Undefined, ""}
                /\ clientId # existingConfig.clientId
                /\ FindByClientId(u, clientId) # {}
          THEN Fail(409, "Conflict", <<>>)
        ELSE
        LET updatedConfig ==
                [existingConfig EXCEPT
                   !.clientId = IF clientId # Undefined THEN clientId ELSE @,
                   !.clientSecret =
                       IF clientSecret # NoSecret
                       THEN encrypt(clientSecret, randomBytes(1), randomBytes(2)) ELSE @,
                   !.name = IF name # Undefined THEN OrNull(name) ELSE @]
        IN  Result(200, [config |-> DecryptedConfig(id, updatedConfig)], <<>>,
                   [Db EXCEPT !.twitchConfigs[id] = updatedConfig])

deleteConfig_Unguarded(u, id) ==
    LET existingConfig == FindConfig(id)
    IN  IF existingConfig = NoRow THEN Fail(404, "Not found", <<>>)
        ELSE IF existingConfig.userId # u THEN Fail(403, "Forbidden", <<>>)
        ELSE Result(200, [message |-> "Twitch configuration deleted successfully"], <<>>,
                    [Db EXCEPT !.twitchConfigs[id] = NoRow])

deleteConfig(u, id) ==
    LET existingConfig == FindConfig(id)
    IN  IF existingConfig = NoRow THEN Fail(404, "Not found", <<>>)
        ELSE IF existingConfig.userId # u THEN Fail(403, "Forbidden", <<>>)
        ELSE IF TokensCount(id) > 0 THEN Fail(400, "Bad request", <<>>)
        ELSE Result(200, [message |-> "Twitch configuration deleted successfully"], <<>>,
                    [Db EXCEPT !.twitchConfigs[id] = NoRow])

\* ------------------------------------------------------------------ actions
\* The provider answers only the requests a handler sends: when the handler
\* returns before its call, no answer is drawn.
Asked(sent, answers) == IF sent THEN answers ELSE {NetErr}

OwnsConfig(u, c) == FindConfig(c) # NoRow /\ FindConfig(c).userId = u

OwnsToken(u, id) == FindToken(id) # NoRow /\ FindToken(id).userId = u

Refreshable(id) == CanRefresh(FindToken(id))

GenerateAppToken ==
    \E u \in Users, c \in ConfigIds, n \in Names :
        \E r \in Asked(OwnsConfig(u, c), AppTokenResponses) :
            \E t \in ClockAfter(r) :
                Apply(generateAppToken(u, c, n, r, t)) /\ UNCHANGED minted

GetToken ==
    \E u \in Users, id \in ReqTokenIds :
        Apply(getToken(u, id)) /\ UNCHANGED minted

DeleteToken ==
    \E u \in Users, id \in ReqTokenIds :
        Apply(deleteToken(u, id)) /\ UNCHANGED minted

StartUserToken ==
    \E u \in Users, c \in ConfigIds, sc \in ScopeSets :
        \E r \in Asked(OwnsConfig(u, c), DeviceResponses) :
            Apply(startUserToken(u, c, sc, r)) /\ UNCHANGED minted

PollUserToken ==
    \E u \in Users, c \in ConfigIds, dc \in ReqDeviceCodes, n \in Names :
        \E r \in Asked(OwnsConfig(u, c), PollResponses(ClientIdOf(c), dc)) :
            \E v \in ValidateAfter(r), t \in ClockAfter(r) :
                LET o == pollUserToken(u, c, dc, n, r, v, t)
                IN  /\ Apply(o)
                    /\ minted' = IF dc \in DeviceCodes
                                  THEN [minted EXCEPT ![dc] = @ + Created(o)]
                                  ELSE minted


StartAuthorizationFlow ==
    \E u \in Users, c \in ConfigIds, sc \in ScopeSets, st \in States :
        Apply(startAuthorizationFlow(u, c, sc, st)) /\ UNCHANGED minted

HandleAuthorizationCallback ==
    \E u \in Users, c \in ConfigIds, n \in Names :
        \E r \in Asked(OwnsConfig(u, c), ExchangeResponses) :
            \E v \in ValidateAfter(r), t \in ClockAfter(r) :
                Apply(handleAuthorizationCallback(u, c, n, r, v, t)) /\ UNCHANGED minted

ValidateSavedToken ==
    \E u \in Users, id \in ReqTokenIds :
        \E v \in Asked(OwnsToken(u, id), ValidateResponses) :
            Apply(validateSavedToken(u, id, v)) /\ UNCHANGED minted

RefreshToken ==
    \E u \in Users, id \in ReqTokenIds :
        \E r \in Asked(OwnsToken(u, id) /\ Refreshable(id), RefreshResponses) :
            \E t \in ClockAfter(r) :
                Apply(refreshToken(u, id, r, t)) /\ UNCHANGED minted

\* the person at the verification page approves or declines, or the code lapses
Authorize ==
    \E dc \in DeviceCodes, sub \in Subjects :
        /\ sessions[dc].state = "pending"
        /\ sessions' = [sessions EXCEPT ![dc].state = "authorized", ![dc].subject = sub]
        /\ UNCHANGED <<twitchConfigs, savedTokens, webhooks, subscriptions, issued, minted, aside>>

Decline ==
    \E dc \in DeviceCodes :
        /\ sessions[dc].state = "pending"
        /\ sessions' = [sessions EXCEPT ![dc].state = "denied"]
        /\ UNCHANGED <<twitchConfigs, savedTokens, webhooks, subscriptions, issued, minted, aside>>

Lapse ==
    \E dc \in DeviceCodes :
        /\ sessions[dc].state \in {"pending", "authorized"}
        /\ sessions' = [sessions EXCEPT ![dc].state = "expired"]
        /\ UNCHANGED <<twitchConfigs, savedTokens, webhooks, subscriptions, issued, minted, aside>>

OwnsWebhook(u, id) == FindWebhook(id) # NoRow /\ FindWebhook(id).userId = u

\* the rows findMany of syncWebhooks selects
AppTokens(u, configId) ==
    {id \in TokensOfKind(u, "app") :
        configId = Undefined \/ savedTokens[id].twitchConfigId = configId}

\* the orders in which the database can return a set of rows
Orders(S) ==
    {seq \in [1..Cardinality(S) -> S] :
        \A i, j \in 1..Cardinality(S) : i # j => seq[i] # seq[j]}

\* one answer of the provider to the list request of each token of S
ListAnswers(S) ==
    {a \in [S -> UNION {ListResponses(TokenClient(t)) : t \in S}] :
        \A t \in S : a[t] \in ListResponses(TokenClient(t))}

GetAllWebhooks ==
    \E u \in Users :
        Apply(getAllWebhooks(u)) /\ UNCHANGED minted

CreateWebhook ==
    \E u \in Users, id \in ReqTokenIds, ty \in EventTypes, cond \in Conditions,
       cb \in CallbackUrls :
        \E r \in Asked(OwnsToken(u, id),
                       CreateSubResponses(TokenClient(id), ty, cond, cb)) :
            Apply(createWebhook(u, id, ty, cond, cb, r)) /\ UNCHANGED minted

DeleteWebhook ==
    \E u \in Users, id \in ReqWebhookIds :
        \E tok \in FindFirst(TokensOfKind(u, "user")) :
            \E r \in Asked(OwnsWebhook(u, id) /\ tok # "none",
                           DeleteSubResponses(TokenClient(tok), id)) :
                Apply(deleteWebhook(u, id, tok, r)) /\ UNCHANGED minted

GetRemoteWebhooks ==
    \E u \in Users :
        \E tok \in FindFirst(TokensOfKind(u, "app")) :
            \E r \in Asked(tok # "none", ListResponses(TokenClient(tok))) :
                Apply(getRemoteWebhooks(u, tok, r)) /\ UNCHANGED minted

SyncWebhooks ==
    \E u \in Users, configId \in ConfigIds \cup {Undefined} :
        \E tokens \in Orders(AppTokens(u, configId)) :
            \E answers \in ListAnswers(AppTokens(u, configId)) :
                Apply(syncWebhooks(u, configId, tokens, answers)) /\ UNCHANGED minted

\* the provider verifies the callback of a subscription, or drops a subscription
ProviderEnables ==
    \E s \in SubIds :
        /\ subscriptions[s] # NoRow
        /\ subscriptions[s].status = "webhook_callback_verification_pending"
        /\ subscriptions' = [subscriptions EXCEPT ![s].status = "enabled", ![s].cost = 0]
        /\ UNCHANGED <<twitchConfigs, savedTokens, webhooks, sessions, issued, minted, aside>>

ProviderDrops ==
    \E s \in SubIds :
        /\ subscriptions[s] # NoRow
        /\ subscriptions' = [subscriptions EXCEPT ![s] = NoRow]
        /\ UNCHANGED <<twitchConfigs, savedTokens, webhooks, sessions, issued, minted, aside>>

\* ------------------------------------------------------------------ specification
\* The database after two users have each registered one configuration.
Init ==
    /\ twitchConfigs =
         [id \in {"cfgA", "cfgB"} |->
            IF id = "cfgA"
            THEN [userId |-> "u1", clientId |-> "clientA",
                  clientSecret |-> encrypt(1, 1, 1), name |-> "A"]
            ELSE [userId |-> "u2", clientId |-> "clientB",
                  clientSecret |-> encrypt(2, 2, 1), name |-> NullStr]]
    /\ savedTokens = [id \in {"t1", "t2"} |-> NoRow]
    /\ webhooks = [s \in SubIds |-> NoRow]
    /\ sessions = [dc \in DeviceCodes |-> NoSession]
    /\ subscriptions = [s \in SubIds |-> NoRow]
    /\ issued = 0
    /\ minted = [dc \in DeviceCodes |-> 0]
    /\ AsideIdle

Next ==
    \/ GenerateAppToken
    \/ GetToken
    \/ DeleteToken
    \/ StartUserToken
    \/ PollUserToken
    \/ StartAuthorizationFlow
    \/ HandleAuthorizationCallback
    \/ ValidateSavedToken
    \/ RefreshToken
    \/ Authorize
    \/ Decline
    \/ Lapse

Spec == Init /\ [][Next]_vars

\* A saved_tokens row of an earlier session: its secrets are ones the provider
\* issued before the tokens this model counts.
SeedToken(u, twitchConfigId, kind, k) ==
    [userId |-> u, twitchConfigId |-> twitchConfigId,
     tokenType |-> kind,
     accessToken |-> encrypt(40 + k, 20 + k, 30 + k),
     refreshToken |-> IF kind = "user" THEN encrypt(50 + k, 24 + k, 34 + k) ELSE NullEnc,
     scopes |-> {},
     channelLogin |-> IF kind = "user" THEN "alice" ELSE NullStr,
     channelId |-> IF kind = "user" THEN "1001" ELSE NullStr,
     name |-> NullStr,
     expiresAt |-> 13]

\* The database after each of two users has registered a configuration (of
\* one client application, or of two) and saved an app token and a user token,
\* u1 has a device code the person approved, and one row of twitch_configs is
\* still free.
InitHooks ==
    /\ \E clientB \in ClientIds :
         twitchConfigs =
           [id \in {"cfgA", "cfgB", "cfgC"} |->
              IF id = "cfgA"
              THEN [userId |-> "u1", clientId |-> "clientA",
                    clientSecret |-> encrypt(1, 1, 1), name |-> "A"]
              ELSE IF id = "cfgB"
              THEN [userId |-> "u2", clientId |-> clientB,
                    clientSecret |-> encrypt(2, 2, 1), name |-> NullStr]
              ELSE NoRow]
    /\ savedTokens =
         [id \in {"t1", "t2", "t3", "t4"} |->
            IF id = "t1" THEN SeedToken("u1", "cfgA", "app", 1)
            ELSE IF id = "t2" THEN SeedToken("u1", "cfgA", "user", 2)
            ELSE IF id = "t3" THEN SeedToken("u2", "cfgB", "app", 3)
            ELSE SeedToken("u2", "cfgB", "user", 4)]
    /\ webhooks = [s \in SubIds |-> NoRow]
    /\ sessions = [dc \in DeviceCodes |->
                     [state |-> "authorized", clientId |-> "clientA",
                      scopes |-> {"chat:read"}, subject |-> [login |-> "alice", id |-> "1001"]]]
    /\ subscriptions = [s \in SubIds |-> NoRow]
    /\ issued = 0
    /\ minted = [dc \in DeviceCodes |-> 0]
    /\ AsideIdle

NextHooks ==
    \/ GetAllWebhooks
    \/ CreateWebhook
    \/ DeleteWebhook
    \/ GetRemoteWebhooks
    \/ SyncWebhooks
    \/ DeleteToken
    \/ ProviderEnables
    \/ ProviderDrops

SpecHooks == InitHooks /\ [][NextHooks]_vars

\* ------------------------------------------------------------------ properties
SomeToken == \E id \in TokenIds : savedTokens[id] # NoRow

StillPending(r) ==
    r.status = 400 /\ r.message \in {"authorization_pending", "slow_down"}

\* rows other than id are what they were
OthersKept(o, id) ==
    \A t \in TokenIds \ {id} : o.db.savedTokens[t] = savedTokens[t]

\* C1: for one device code, the polls answered pending create no row and the
\* poll the provider answers with a token creates exactly one: a code the
\* provider has spent has one row to its name, any other code none.
C1_OneRecordPerGrant ==
    \A dc \in DeviceCodes :
        minted[dc] = IF sessions[dc].state = "consumed" THEN 1 ELSE 0

\* C2: a poll the provider answers with authorization_pending or slow_down is
\* answered 200 {status: pending} and leaves every table as it was.
C2_PendingIsNormalAndChangesNothing ==
    \A u \in Users, c \in ConfigIds, dc \in ReqDeviceCodes, n \in Names :
        OwnsConfig(u, c) =>
            \A r \in PollResponses(ClientIdOf(c), dc) :
                StillPending(r) =>
                    LET o == pollUserToken(u, c, dc, n, r, NetErr, 10)
                    IN  /\ o.status = 200
                        /\ o.body = [status |-> "pending"]
                        /\ o.db = Db

C2_Witness ==
    /\ SomeToken
    /\ \E u \in Users, c \in ConfigIds, dc \in DeviceCodes :
        /\ OwnsConfig(u, c)
        /\ sessions[dc].state = "pending"
        /\ Rejected(400, "slow_down") \in PollResponses(ClientIdOf(c), dc)
        /\ pollUserToken(u, c, dc, "mine", Rejected(400, "slow_down"), NetErr, 10).body.status
             = "pending"

\* C3: a poll the provider answers with access_denied is reported as denied, one
\* it answers with expired_token as expired, and neither creates or changes a
\* TokenRecord.
C3_DeniedAndExpiredCreateNothing ==
    \A u \in Users, c \in ConfigIds, dc \in ReqDeviceCodes, n \in Names :
        OwnsConfig(u, c) =>
            \A r \in PollResponses(ClientIdOf(c), dc) :
                LET o == pollUserToken(u, c, dc, n, r, NetErr, 10)
                IN  /\ (r.status = 400 /\ r.message = "access_denied") =>
                        /\ o.body = [status |-> "denied"]
                        /\ o.db.savedTokens = savedTokens
                    /\ (r.status = 400 /\ r.message = "expired_token") =>
                        /\ o.body = [status |-> "expired"]
                        /\ o.db.savedTokens = savedTokens

C3_Witness ==
    /\ SomeToken
    /\ \E u \in Users, c \in ConfigIds, dc \in DeviceCodes :
        /\ OwnsConfig(u, c)
        /\ sessions[dc].state = "expired"
        /\ sessions[dc].clientId = ClientIdOf(c)
        /\ pollUserToken(u, c, dc, "mine", Rejected(400, "expired_token"), NetErr, 10).status = 400

\* C4: a refresh that succeeds keeps every owner's set of TokenRecord ids,
\* replaces the access secret, refresh secret, scopes and expiry of the record
\* by those of the provider's answer, and keeps its other fields and every
\* other record.
C4_RefreshReplacesInPlace ==
    \A u \in Users, id \in TokenIds :
        (OwnsToken(u, id) /\ Refreshable(id)) =>
            \A r \in RefreshResponses, t \in Times :
                LET o == refreshToken(u, id, r, t)
                    old == savedTokens[id]
                    new == o.db.savedTokens[id]
                IN  (Ok(r) /\ o.feasible) =>
                        /\ o.status = 200
                        /\ \A w \in Users :
                              RowsOf(o.db.savedTokens, w) = RowsOf(savedTokens, w)
                        /\ decrypt(new.accessToken) = r.data.access_token
                        /\ decrypt(new.refreshToken) = r.data.refresh_token
                        /\ new.scopes = r.data.scope
                        /\ new.expiresAt = t + r.data.expires_in
                        /\ new.tokenType = old.tokenType
                        /\ new.userId = old.userId
                        /\ new.twitchConfigId = old.twitchConfigId
                        /\ new.channelLogin = old.channelLogin
                        /\ new.channelId = old.channelId
                        /\ new.name = old.name
                        /\ OthersKept(o, id)

C4_Witness ==
    \E u \in Users, id \in TokenIds, r \in RefreshResponses, t \in Times :
        /\ OwnsToken(u, id) /\ Refreshable(id) /\ Ok(r)
        /\ refreshToken(u, id, r, t).feasible
        /\ refreshToken(u, id, r, t).status = 200
        /\ refreshToken(u, id, r, t).db.savedTokens[id].scopes # savedTokens[id].scopes
        /\ refreshToken(u, id, r, t).db.savedTokens[id].expiresAt # savedTokens[id].expiresAt
        /\ \E other \in TokenIds \ {id} : savedTokens[other] # NoRow

\* C5: refresh of a record that is not of kind user, or has no refresh secret,
\* is answered 400 (cannot be refreshed) with no provider call and no change.
C5_NotRefreshable ==
    \A u \in Users, id \in TokenIds :
        (OwnsToken(u, id)
           /\ (savedTokens[id].tokenType # "user" \/ savedTokens[id].refreshToken = NullEnc)) =>
            \A r \in RefreshResponses, t \in Times :
                LET o == refreshToken(u, id, r, t)
                IN  /\ o.status = 400
                    /\ o.body.error = "This token cannot be refreshed"
                    /\ o.calls = <<>>
                    /\ o.db = Db

C5_Witness ==
    \E u \in Users, id \in TokenIds :
        /\ OwnsToken(u, id)
        /\ savedTokens[id].tokenType = "app"
        /\ issued < MaxIssued
        /\ refreshToken(u, id, Granted(TokenData({}, 3)), 10).status = 400

\* C6: every operation of the token controller that takes a configuration id or
\* a token id answers 404 when no row has the id and 403 (never 404) when the
\* row is another user's.
C6_NotFoundThenForbidden ==
    /\ \A u \in Users, c \in ConfigIds :
          LET statuses ==
                <<generateAppToken(u, c, "mine", NetErr, 10).status,
                  startUserToken(u, c, {}, NetErr).status,
                  pollUserToken(u, c, "dc1", "mine", NetErr, NetErr, 10).status,
                  startAuthorizationFlow(u, c, {}, "xyz").status,
                  handleAuthorizationCallback(u, c, "mine", NetErr, NetErr, 10).status>>
          IN  \A i \in DOMAIN statuses :
                /\ FindConfig(c) = NoRow => statuses[i] = 404
                /\ (FindConfig(c) # NoRow /\ FindConfig(c).userId # u) => statuses[i] = 403
    /\ \A u \in Users, id \in ReqTokenIds :
          LET statuses ==
                <<refreshToken(u, id, NetErr, 10).status,
                  validateSavedToken(u, id, NetErr).status,
                  getToken(u, id).status,
                  deleteToken(u, id).status>>
          IN  \A i \in DOMAIN statuses :
                /\ FindToken(id) = NoRow => statuses[i] = 404
                /\ (FindToken(id) # NoRow /\ FindToken(id).userId # u) => statuses[i] = 403

\* the rows of a table that user v owns, before or after, are what they were
KeptFor(v, before, after) ==
    \A id \in DOMAIN before :
        (\/ (before[id] # NoRow /\ before[id].userId = v)
         \/ (after[id] # NoRow /\ after[id].userId = v))
            => after[id] = before[id]

\* the result o of an operation user u requested uses no secret of another
\* user, leaves every row of another user as it was, creates no row for another
\* user, and leaves each saved_tokens row it wrote under a configuration of u
Respects(u, o) ==
    o.feasible =>
        /\ \A i \in DOMAIN o.calls : o.calls[i].owners \subseteq {u}
        /\ \A v \in Users \ {u} :
              /\ KeptFor(v, twitchConfigs, o.db.twitchConfigs)
              /\ KeptFor(v, savedTokens, o.db.savedTokens)
              /\ KeptFor(v, webhooks, o.db.webhooks)
        /\ \A id \in TokenIds :
              (o.db.savedTokens[id] # NoRow /\ o.db.savedTokens[id] # savedTokens[id]) =>
                  LET config == o.db.twitchConfigs[o.db.savedTokens[id].twitchConfigId]
                  IN  config # NoRow /\ config.userId = u

TokenOpsRespect(u) ==
    /\ \A c \in ConfigIds, n \in Names, t \in Times :
          /\ \A r \in AppTokenResponses : Respects(u, generateAppToken(u, c, n, r, t))
          /\ \A sc \in ScopeSets, r \in DeviceResponses :
                Respects(u, startUserToken(u, c, sc, r))
          /\ \A dc \in ReqDeviceCodes :
                \A r \in PollResponses(ClientIdOf(c), dc), v \in ValidateResponses :
                    Respects(u, pollUserToken(u, c, dc, n, r, v, t))
          /\ \A sc \in ScopeSets, st \in States :
                Respects(u, startAuthorizationFlow(u, c, sc, st))
          /\ \A r \in ExchangeResponses, v \in ValidateResponses :
                Respects(u, handleAuthorizationCallback(u, c, n, r, v, t))
    /\ \A id \in ReqTokenIds :
          /\ Respects(u, getToken(u, id))
          /\ Respects(u, deleteToken(u, id))
          /\ \A v \in ValidateResponses : Respects(u, validateSavedToken(u, id, v))
          /\ \A r \in RefreshResponses, t \in Times : Respects(u, refreshToken(u, id, r, t))

WebhookOpsRespect(u) ==
    /\ Respects(u, getAllWebhooks(u))
    /\ \A id \in ReqTokenIds, ty \in EventTypes, cond \in Conditions, cb \in CallbackUrls :
          \A r \in CreateSubResponses(TokenClient(id), ty, cond, cb) :
              Respects(u, createWebhook(u, id, ty, cond, cb, r))
    /\ \A id \in ReqWebhookIds, tok \in FindFirst(TokensOfKind(u, "user")) :
          \A r \in DeleteSubResponses(TokenClient(tok), id) :
              Respects(u, deleteWebhook(u, id, tok, r))
    /\ \A tok \in FindFirst(TokensOfKind(u, "app")) :
          \A r \in ListResponses(TokenClient(tok)) :
              Respects(u, getRemoteWebhooks(u, tok, r))
    /\ \A configId \in ConfigIds \cup {Undefined} :
          \A tokens \in Orders(AppTokens(u, configId)),
             answers \in ListAnswers(AppTokens(u, configId)) :
              Respects(u, syncWebhooks(u, configId, tokens, answers))

ConfigOpsRespect(u) ==
    /\ Respects(u, getAllConfigs(u))
    /\ \A id \in ConfigIds :
          /\ Respects(u, getConfig(u, id))
          /\ Respects(u, deleteConfig(u, id))
          /\ \A clientId \in ClientIds \cup {Undefined}, clientSecret \in SecretInputs,
                name \in NameInputs :
                Respects(u, updateConfig(u, id, clientId, clientSecret, name))
    /\ \A clientId \in ClientIds, name \in NameInputs :
          Respects(u, createConfig(u, clientId, 7, name))

\* C7: in every reachable state, whatever a user requests and whatever the
\* provider answers, the operation sends no secret of another user, attaches no
\* token to another user's configuration, and creates, changes or deletes no
\* configuration, token or webhook row of another user.
C7_OwnershipIsolation ==
    \A u \in Users :
        TokenOpsRespect(u) /\ WebhookOpsRespect(u) /\ ConfigOpsRespect(u)

\* both users hold webhooks, one of them a subscription of the client
\* application the other user's app token lists, and requests on the other
\* user's token are refused
C7_Witness ==
    \E s1, s2 \in SubIds :
        /\ webhooks[s1] # NoRow /\ webhooks[s1].userId = "u1"
        /\ webhooks[s2] # NoRow /\ webhooks[s2].userId = "u2"
        /\ subscriptions[s1] # NoRow
        /\ savedTokens["t3"] # NoRow /\ savedTokens["t4"] # NoRow
        /\ subscriptions[s1].clientId = TokenClient("t3")
        /\ createWebhook("u1", "t3", "stream.online", "b1", "https://cb", NetErr).status = 403
        /\ refreshToken("u1", "t4", NetErr, 10).status = 403
        /\ syncWebhooks("u2", Undefined, <<"t3">>, [t \in {"t3"} |-> Listed(TokenClient("t3"), MaxPageSize)]).db.webhooks[s1]
             = webhooks[s1]

\* C8: a client-credentials call that succeeds adds exactly one TokenRecord, of
\* kind app with no scope, no subject, no refresh secret and an expiry, and
\* leaves every record there was as it was.
C8_AppTokenIsNewRecord ==
    \A u \in Users, c \in ConfigIds, n \in Names :
        OwnsConfig(u, c) =>
            \A r \in AppTokenResponses, t \in Times :
                LET o == generateAppToken(u, c, n, r, t)
                    new == o.db.savedTokens[o.body.id]
                IN  (Ok(r) /\ o.feasible) =>
                        /\ o.status = 201
                        /\ Created(o) = 1
                        /\ savedTokens[o.body.id] = NoRow
                        /\ OthersKept(o, o.body.id)
                        /\ new.tokenType = "app"
                        /\ new.scopes = {}
                        /\ new.channelLogin = NullStr /\ new.channelId = NullStr
                        /\ new.refreshToken = NullEnc
                        /\ new.expiresAt = t + r.data.expires_in
                        /\ new.twitchConfigId = c /\ new.userId = u

\* two app records of one CredentialSet after two calls
C8_Witness ==
    /\ \A id \in TokenIds :
          savedTokens[id] # NoRow /\ savedTokens[id].tokenType = "app"
    /\ savedTokens["t1"].twitchConfigId = savedTokens["t2"].twitchConfigId
    /\ savedTokens["t1"] # savedTokens["t2"]

\* C9: the record a granting poll creates is of kind user, holds the access and
\* refresh secret of the provider's TokenResult encrypted, its scopes, the login
\* and id validateToken answered, and the time of receipt plus expires_in.
C9_PollSuccessRecord ==
    \A u \in Users, c \in ConfigIds, dc \in DeviceCodes, n \in Names :
        OwnsConfig(u, c) =>
            \A r \in PollResponses(ClientIdOf(c), dc), v \in ValidateResponses,
               t \in Times :
                LET o == pollUserToken(u, c, dc, n, r, v, t)
                    new == o.db.savedTokens[o.body.id]
                IN  (o.status = 201 /\ o.feasible) =>
                        /\ Ok(r) /\ Ok(v)
                        /\ Created(o) = 1
                        /\ new.tokenType = "user"
                        /\ new.userId = u /\ new.twitchConfigId = c
                        /\ decrypt(new.accessToken) = r.data.access_token
                        /\ decrypt(new.refreshToken) = r.data.refresh_token
                        /\ new.accessToken.data # r.data.access_token
                        /\ new.refreshToken.data # r.data.refresh_token
                        /\ new.scopes = r.data.scope
                        /\ new.channelLogin = v.data.login
                        /\ new.channelId = v.data.user_id
                        /\ new.expiresAt = t + r.data.expires_in

C9_Witness ==
    \E dc \in DeviceCodes, id \in TokenIds :
        /\ minted[dc] = 1
        /\ sessions[dc].state = "consumed"
        /\ savedTokens[id] # NoRow
        /\ savedTokens[id].tokenType = "user"
        /\ savedTokens[id].channelLogin = sessions[dc].subject.login
        /\ savedTokens[id].expiresAt = 23

\* C10: validate of a record whose access secret the provider rejects with 401
\* is answered 200 {valid: false} and leaves the record and every table as it was.
C10_InvalidIsNormalResult ==
    \A u \in Users, id \in TokenIds :
        OwnsToken(u, id) =>
            LET o == validateSavedToken(u, id, Rejected(401, "invalid access token"))
            IN  /\ o.status = 200
                /\ o.body = [valid |-> FALSE]
                /\ o.db = Db

C10_Witness ==
    \E u \in Users, id \in TokenIds :
        /\ OwnsToken(u, id)
        /\ validateSavedToken(u, id, Rejected(401, "invalid access token")).body.valid = FALSE

\* C11: validateToken fails with the invalid-token error exactly when the
\* provider answers 401, and validate of a saved token answers {valid: false}
\* only for a provider 401, never for a request that got no response.
C11_InvalidOnlyFor401 ==
    \A u \in Users, id \in TokenIds :
        OwnsToken(u, id) =>
            \A v \in ValidateResponses :
                LET validation == validateToken(v)
                    o == validateSavedToken(u, id, v)
                IN  /\ (~validation.ok /\ validation.message = "Invalid or expired token")
                          <=> v.status = 401
                    /\ o.body = [valid |-> FALSE] => v.status = 401

\* ------------------------------------------------------------------ sync specification
\* The database after u1 has registered two configurations (of two client
\* applications), saved two app tokens and a user token for the first and an
\* app token for the second, and u2
\* has registered the client application of u1's first configuration and
\* saved an app token for it.
InitSync ==
    /\ twitchConfigs =
         [id \in {"cfgA", "cfgB", "cfgC"} |->
            IF id = "cfgA"
            THEN [userId |-> "u1", clientId |-> "clientA",
                  clientSecret |-> encrypt(1, 1, 1), name |-> "A"]
            ELSE IF id = "cfgB"
            THEN [userId |-> "u2", clientId |-> "clientA",
                  clientSecret |-> encrypt(1, 2, 1), name |-> NullStr]
            ELSE [userId |-> "u1", clientId |-> "clientB",
                  clientSecret |-> encrypt(2, 3, 1), name |-> NullStr]]
    /\ savedTokens =
         [id \in {"t1", "t2", "t3", "t4", "t5"} |->
            IF id = "t1" THEN SeedToken("u1", "cfgA", "app", 1)
            ELSE IF id = "t2" THEN SeedToken("u1", "cfgC", "app", 2)
            ELSE IF id = "t3" THEN SeedToken("u2", "cfgB", "app", 3)
            ELSE IF id = "t4" THEN SeedToken("u1", "cfgA", "user", 4)
            ELSE SeedToken("u1", "cfgA", "app", 5)]
    /\ webhooks = [s \in SubIds |-> NoRow]
    /\ sessions = [dc \in DeviceCodes |-> NoSession]
    /\ subscriptions = [s \in SubIds |-> NoRow]
    /\ issued = 0
    /\ minted = [dc \in DeviceCodes |-> 0]
    /\ AsideIdle

NextSync ==
    \/ CreateWebhook
    \/ DeleteWebhook
    \/ SyncWebhooks
    \/ ProviderEnables
    \/ ProviderDrops

SpecSync == InitSync /\ [][NextSync]_vars

\* ------------------------------------------------------------------ properties of sync
\* one pass of the loop of syncWebhooks, from the tables as they are
OnePass(u, tokenId, r) == SyncToken(SyncStart, tokenId, r, u)

RemoteIds(r) == {r.data.data[i].id : i \in DOMAIN r.data.data}

\* the pass inserted every listed subscription u had not cached, overwrote
\* every one u had cached, and counted each
MergesAll(u, tokenId, r) ==
    LET p == OnePass(u, tokenId, r)
        remote == r.data.data
        local == RowsOf(webhooks, u)
        fresh == {i \in DOMAIN remote : remote[i].id \notin local}
    IN  /\ \A i \in fresh :
              p.hooks[remote[i].id] =
                  [userId |-> u, subscriptionId |-> remote[i].id, type |-> remote[i].type,
                   condition |-> remote[i].condition, callbackUrl |-> remote[i].callback,
                   status |-> remote[i].status, cost |-> remote[i].cost]
        /\ \A i \in DOMAIN remote \ fresh :
              LET old == webhooks[remote[i].id]
                  new == p.hooks[remote[i].id]
              IN  /\ new.status = remote[i].status
                  /\ new.condition = remote[i].condition
                  /\ new.cost = remote[i].cost
                  /\ new.userId = old.userId /\ new.subscriptionId = old.subscriptionId
                  /\ new.type = old.type /\ new.callbackUrl = old.callbackUrl
        /\ p.imported = Cardinality(fresh)
        /\ p.updated = Len(remote) - Cardinality(fresh)
        /\ p.imported + p.updated = Len(remote)

\* C12: in a pass, every listed subscription that is not in the
\* user's cache is inserted and counted imported, every one that is in it is
\* overwritten and counted updated, and the two counts add up to the length of
\* the list.
C12_MergeClassifiesEveryRemote ==
    \A u \in Users, t \in TokenIds :
        t \in TokensOfKind(u, "app") =>
            \A r \in ListResponses(TokenClient(t)) :
                Ok(r) => MergesAll(u, t, r)

\* C13: in a pass, every cached subscription of the user that the fetched
\* list does not hold is deleted and counted removed, none that the list holds
\* is deleted, and a sync of one configuration with exactly one such stale
\* record reports removed = 1.
C13_StaleRecordsPurged ==
    \A u \in Users, t \in TokenIds :
        t \in TokensOfKind(u, "app") =>
            \A r \in ListResponses(TokenClient(t)) :
                Ok(r) =>
                    LET p == OnePass(u, t, r)
                        local == RowsOf(webhooks, u)
                        stale == local \ RemoteIds(r)
                        configId == savedTokens[t].twitchConfigId
                    IN  /\ \A id \in stale : p.hooks[id] = NoRow
                        /\ \A id \in local \cap RemoteIds(r) : p.hooks[id] # NoRow
                        /\ p.removed = Cardinality(stale)
                        /\ (Cardinality(stale) = 1 /\ AppTokens(u, configId) = {t}) =>
                              syncWebhooks(u, configId, <<t>>, [x \in {t} |-> r]).body.removed = 1

\* the loop of syncWebhooks run over the webhooks table hooks
SyncRun(hooks, tokens, answers, u) ==
    SyncTokens([SyncStart EXCEPT !.hooks = hooks], tokens, answers, u)

\* every app token of S gets the whole list of its client application
WholeLists(S) == [t \in S |-> Listed(TokenClient(t), MaxPageSize)]

\* C14: for a user with any number of configurations holding app tokens, a
\* second sync over an unchanged provider state imports nothing, removes
\* nothing, counts as updated the cached records the provider lists, and
\* leaves the cache as the first sync left it.
C14_SecondSyncIsIdle ==
    \A u \in Users :
        \A tokens \in Orders(AppTokens(u, Undefined)) :
            LET answers == WholeLists(AppTokens(u, Undefined))
                first == SyncRun(webhooks, tokens, answers, u)
                second == SyncRun(first.hooks, tokens, answers, u)
                remote == UNION {RemoteIds(answers[t]) : t \in AppTokens(u, Undefined)}
            IN  /\ second.imported = 0
                /\ second.removed = 0
                /\ second.updated = Cardinality(RowsOf(first.hooks, u) \cap remote)
                /\ second.hooks = first.hooks

\* the tokens of a sync whose list request the provider answered
Fetched(tokens, answers) == SelectSeq(tokens, LAMBDA t : Ok(answers[t]))

\* C15: when the list request of one of several configurations fails, the
\* sync answers normally, still asks the provider for every configuration,
\* and merges the others as a sync of them alone would.
C15_FailureSkipsOneConfiguration ==
    \A u \in Users :
        \A tokens \in Orders(AppTokens(u, Undefined)) :
            \A answers \in ListAnswers(AppTokens(u, Undefined)) :
                (Len(tokens) > 1 /\ \E i \in DOMAIN tokens : ~Ok(answers[tokens[i]])) =>
                    LET o == syncWebhooks(u, Undefined, tokens, answers)
                        st == SyncRun(webhooks, Fetched(tokens, answers), answers, u)
                    IN  /\ o.status = 200
                        /\ Len(o.calls) = Len(tokens)
                        /\ o.body = [imported |-> st.imported, updated |-> st.updated,
                                     removed |-> st.removed, total |-> st.total,
                                     configsSynced |-> st.configsSynced]
                        /\ o.db.webhooks = st.hooks

\* the first configuration's token is rejected and the second one's list
\* brings a change into the cache
C15_Witness ==
    \E u \in Users :
        \E tokens \in Orders(AppTokens(u, Undefined)) :
            /\ Len(tokens) >= 2
            /\ LET answers == [t \in AppTokens(u, Undefined) |->
                                  IF t = tokens[1] THEN Rejected(401, "Invalid OAuth token")
                                  ELSE Listed(TokenClient(t), MaxPageSize)]
                   o == syncWebhooks(u, Undefined, tokens, answers)
               IN  /\ o.status = 200
                   /\ o.body.updated > 0
                   /\ o.db.webhooks # webhooks

\* the name syncWebhooks reports for the configuration of a token
DisplayName(tokenId) ==
    LET twitchConfig == FindConfig(FindToken(tokenId).twitchConfigId)
    IN  IF twitchConfig.name # NullStr THEN twitchConfig.name ELSE twitchConfig.clientId

\* the pass for tokens[i] got the list and wrote the cache without a failure
Completed(tokens, answers, u, i) ==
    /\ Ok(answers[tokens[i]])
    /\ ~SyncRun(webhooks, SubSeq(tokens, 1, i), answers, u).thrown

\* C16: the names a sync reports are exactly those of the configurations
\* whose pass completed without a failure; a configuration whose fetch or
\* whose insert, update or delete failed is not reported.
C16_ReportsOnlyCompleted ==
    \A u \in Users :
        \A tokens \in Orders(AppTokens(u, Undefined)) :
            \A answers \in ListAnswers(AppTokens(u, Undefined)) :
                tokens # <<>> =>
                    LET configsSynced ==
                            syncWebhooks(u, Undefined, tokens, answers).body.configsSynced
                        completed ==
                            {i \in DOMAIN tokens : Completed(tokens, answers, u, i)}
                    IN  /\ Len(configsSynced) = Cardinality(completed)
                        /\ {configsSynced[k] : k \in DOMAIN configsSynced} =
                               {DisplayName(tokens[i]) : i \in completed}

\* C17: a sync for which no app token is usable, because the user has none
\* for the configurations asked for or because the provider answers none of
\* them, fails as a whole; it is never a success with no configuration synced.
C17_NoUsableTokenFails ==
    \A u \in Users, configId \in ConfigIds \cup {Undefined} :
        \A tokens \in Orders(AppTokens(u, configId)) :
            \A answers \in ListAnswers(AppTokens(u, configId)) :
                (\A i \in DOMAIN tokens : ~Ok(answers[tokens[i]])) =>
                    syncWebhooks(u, configId, tokens, answers).status = 404

\* C18: when the provider's list spans several pages, a pass classifies
\* against the subscriptions of every page, so a cached record whose id is
\* only on a later page is kept.
C18_LaterPagesAreRead ==
    \A u \in Users, t \in TokenIds :
        t \in TokensOfKind(u, "app") =>
            \A r \in ListResponses(TokenClient(t)) :
                Ok(r) =>
                    LET p == OnePass(u, t, r)
                        all == SubsOf(TokenClient(t))
                    IN  /\ p.total = Len(all)
                        /\ \A i \in DOMAIN all :
                               all[i].id \in RowsOf(webhooks, u) => p.hooks[all[i].id] # NoRow

\* ------------------------------------------------------------------ configurations
GetAllConfigs ==
    \E u \in Users :
        Apply(getAllConfigs(u)) /\ UNCHANGED minted

GetConfig ==
    \E u \in Users, id \in ConfigIds :
        Apply(getConfig(u, id)) /\ UNCHANGED minted

CreateConfig ==
    \E u \in Users, clientId \in ClientIds, clientSecret \in SecretInputs \ {NoSecret},
       name \in NameInputs :
        Apply(createConfig(u, clientId, clientSecret, name)) /\ UNCHANGED minted

UpdateConfig ==
    \E u \in Users, id \in ConfigIds, clientId \in ClientIds \cup {Undefined},
       clientSecret \in SecretInputs, name \in NameInputs :
        Apply(updateConfig(u, id, clientId, clientSecret, name)) /\ UNCHANGED minted

DeleteConfig ==
    \E u \in Users, id \in ConfigIds :
        Apply(deleteConfig(u, id)) /\ UNCHANGED minted

\* The database after two users have each registered the same client
\* application and saved a token for it; one twitch_configs row is free.
InitConfigs ==
    /\ twitchConfigs =
         [id \in {"cfgA", "cfgB", "cfgC"} |->
            IF id = "cfgA"
            THEN [userId |-> "u1", clientId |-> "clientA",
                  clientSecret |-> encrypt(1, 1, 1), name |-> NullStr]
            ELSE IF id = "cfgB"
            THEN [userId |-> "u2", clientId |-> "clientA",
                  clientSecret |-> encrypt(1, 2, 1), name |-> NullStr]
            ELSE NoRow]
    /\ savedTokens =
         [id \in {"t1", "t2"} |->
            IF id = "t1" THEN SeedToken("u1", "cfgA", "app", 1)
            ELSE SeedToken("u2", "cfgB", "user", 2)]
    /\ webhooks = [s \in SubIds |-> NoRow]
    /\ sessions = [dc \in DeviceCodes |-> NoSession]
    /\ subscriptions = [s \in SubIds |-> NoRow]
    /\ issued = 0
    /\ minted = [dc \in DeviceCodes |-> 0]
    /\ AsideIdle

NextConfigs ==
    \/ GetAllConfigs
    \/ GetConfig
    \/ CreateConfig
    \/ UpdateConfig
    \/ DeleteConfig
    \/ DeleteToken

SpecConfigs == InitConfigs /\ [][NextConfigs]_vars

\* ------------------------------------------------------------------ properties of configurations
\* the saved tokens that reference configuration id
TokensOf(id) ==
    {t \in TokenIds : savedTokens[t] # NoRow /\ savedTokens[t].twitchConfigId = id}

\* C19: deleting a configuration that a saved token references is refused and
\* leaves the configuration and the tokens as they were; the owner's deletion
\* succeeds exactly when no token references it, and no saved token is ever
\* left referencing a configuration that is gone.
C19_DeleteRefusedWhileReferenced ==
    /\ \A u \in Users, id \in ConfigIds :
           LET o == deleteConfig(u, id)
           IN  /\ (FindConfig(id) # NoRow /\ TokensOf(id) # {}) =>
                      /\ o.status \in {400, 403}
                      /\ OwnsConfig(u, id) => o.status = 400
                      /\ o.db.twitchConfigs = twitchConfigs
                      /\ o.db.savedTokens = savedTokens
               /\ o.status = 200 <=> (OwnsConfig(u, id) /\ TokensOf(id) = {})
               /\ o.status = 200 => o.db.twitchConfigs[id] = NoRow
    /\ \A t \in TokenIds :
           savedTokens[t] # NoRow => FindConfig(savedTokens[t].twitchConfigId) # NoRow

\* one configuration was deleted after its token was, and the deletion of
\* another one that a token still references is refused
C19_Witness ==
    /\ twitchConfigs["cfgA"] = NoRow
    /\ \E u \in Users, id \in ConfigIds :
           /\ OwnsConfig(u, id)
           /\ TokensOf(id) # {}
           /\ deleteConfig(u, id).status = 400

\* the configurations of u other than id that carry clientId
Twins(u, id, clientId) ==
    {c \in DOMAIN twitchConfigs \ {id} :
        /\ twitchConfigs[c] # NoRow
        /\ twitchConfigs[c].userId = u
        /\ twitchConfigs[c].clientId = clientId}

\* C20: no two configurations of one owner carry the same client id, and a
\* create or an update that would make two of them do so is answered with a
\* conflict and changes nothing.
C20_ClientIdUniquePerOwner ==
    /\ \A id \in DOMAIN twitchConfigs :
           twitchConfigs[id] # NoRow =>
               Twins(twitchConfigs[id].userId, id, twitchConfigs[id].clientId) = {}
    /\ \A u \in Users, clientId \in ClientIds, clientSecret \in SecretInputs \ {NoSecret},
          name \in NameInputs :
           Twins(u, "none", clientId) # {} =>
               LET o == createConfig(u, clientId, clientSecret, name)
               IN  o.status = 409 /\ o.db = Db
    /\ \A u \in Users, id \in ConfigIds, clientId \in ClientIds,
          clientSecret \in SecretInputs, name \in NameInputs :
           (OwnsConfig(u, id) /\ Twins(u, id, clientId) # {}) =>
               LET o == updateConfig(u, id, clientId, clientSecret, name)
               IN  o.status = 409 /\ o.db = Db

\* a user holds two configurations and asks to give one the client id of the
\* other
C20_Witness ==
    \E u \in Users, id \in ConfigIds :
        /\ OwnsConfig(u, id)
        /\ \E other \in Twins(u, id, "clientA") :
               /\ twitchConfigs[id].clientId = "clientB"
               /\ updateConfig(u, id, twitchConfigs[other].clientId, NoSecret, Undefined).status = 409
               /\ createConfig(u, "clientB", 7, Undefined).status = 409

\* C23: the answer of getAllConfigs carries the client secret of no
\* configuration.
C23_ListHidesSecrets ==
    \A u \in Users :
        LET o == getAllConfigs(u)
        IN  o.status = 200 =>
                \A config \in o.body.configs : "clientSecret" \notin DOMAIN config

\* C26: pollDeviceToken answers "still pending" for authorization_pending and
\* for slow_down, fails with access_denied and with expired_token under their
\* own names, and fails for any other 4xx answer with an error that carries
\* the provider's message.
C26_PollClassification ==
    \A c \in ConfigIds, dc \in ReqDeviceCodes :
        FindConfig(c) # NoRow =>
            \A r \in PollResponses(ClientIdOf(c), dc) :
                LET o == pollDeviceToken(r)
                IN  (r.status >= 400 /\ r.status < 500) =>
                        IF r.message \in {"authorization_pending", "slow_down"}
                        THEN o = Pending
                        ELSE IF r.message \in {"access_denied", "expired_token"}
                        THEN o = Thrown(r.message)
                        ELSE /\ o = Thrown(r.message)
                             /\ o \notin {Thrown("access_denied"), Thrown("expired_token")}

\* the configurations the tokens of S belong to
ConfigsOf(S) == {savedTokens[t].twitchConfigId : t \in S}

\* the sizes of the provider's lists of the client applications of the
\* configurations of C, added up
RECURSIVE RemoteTotal(_)
RemoteTotal(C) ==
    IF C = {} THEN 0
    ELSE LET c == CHOOSE x \in C : TRUE
         IN  Len(SubsOf(ClientIdOf(c))) + RemoteTotal(C \ {c})

\* C25: a sync asks the provider once for each configuration, however many
\* app tokens the configuration has: the reported total is the sum of the
\* sizes of the lists of the distinct configurations, and no configuration is
\* named twice.
C25_OncePerConfiguration ==
    \A u \in Users :
        \A tokens \in Orders(AppTokens(u, Undefined)) :
            tokens # <<>> =>
                LET o == syncWebhooks(u, Undefined, tokens, WholeLists(AppTokens(u, Undefined)))
                    configs == ConfigsOf(AppTokens(u, Undefined))
                    configsSynced == o.body.configsSynced
                IN  /\ Len(o.calls) = Cardinality(configs)
                    /\ o.body.total = RemoteTotal(configs)
                    /\ \A i, j \in DOMAIN configsSynced :
                           i # j => configsSynced[i] # configsSynced[j]

\* C28: after a sync over two or more configurations of a user in which
\* nothing failed, the provider ids the user has cached are the union of the
\* lists of the configurations.
C28_CacheIsUnionOfLists ==
    \A u \in Users :
        \A tokens \in Orders(AppTokens(u, Undefined)) :
            LET answers == WholeLists(AppTokens(u, Undefined))
                o == syncWebhooks(u, Undefined, tokens, answers)
            IN  (/\ Cardinality(ConfigsOf(AppTokens(u, Undefined))) >= 2
                 /\ \A i \in DOMAIN tokens : Completed(tokens, answers, u, i)) =>
                    RowsOf(o.db.webhooks, u) =
                        UNION {RemoteIds(answers[t]) : t \in AppTokens(u, Undefined)}

\* some poll with deviceCode would still be answered with a token
Obtainable(deviceCode) ==
    \E c \in ConfigIds :
        /\ FindConfig(c) # NoRow
        /\ \E r \in PollResponses(ClientIdOf(c), deviceCode) : Ok(r)

\* C30: a grant is never lost: once the provider has answered a poll of a
\* device code with a token, a saved token of that grant exists or a later
\* poll with the same code can still get the token.
C30_GrantNeverLost ==
    \A dc \in DeviceCodes :
        sessions[dc].state = "consumed" => (minted[dc] >= 1 \/ Obtainable(dc))

\* ------------------------------------------------------------------ the codec on strings
\* A string is a sequence of UTF-16 code units: a letter, U+FFFD, and a
\* surrogate that has no pair.
CodeUnits == {"a", "FFFD", "D800"}

Lengths == 0..2

Texts == UNION {[1..n -> CodeUnits] : n \in Lengths}

Salts == {1, 2}

Ivs == {1, 2}

\* the 'utf8' input encoding of cipher.update writes a surrogate without its
\* pair as U+FFFD
Utf8Byte(c) == IF c = "a" THEN 1 ELSE 2

\* the bytes of a string as the number the cipher works on
RECURSIVE Utf8(_)
Utf8(str) ==
    IF str = <<>> THEN 0
    ELSE 2 * Utf8(SubSeq(str, 1, Len(str) - 1)) + Utf8Byte(str[Len(str)])

\* the 'utf8' output encoding of decipher.update and decipher.final
RECURSIVE FromUtf8(_)
FromUtf8(bytes) ==
    IF bytes = 0 THEN <<>>
    ELSE LET b == IF bytes % 2 = 1 THEN 1 ELSE 2
         IN  Append(FromUtf8((bytes - b) \div 2), IF b = 1 THEN "a" ELSE "FFFD")

\* The stored string is a sequence of symbols: the hex text of a buffer (a
\* number below Modulus), the delimiter, or a character that is no hex digit.
Colon == -1

Junk == -2

Symbols == {Colon, Junk} \cup (0..(Modulus - 1))

\* `${salt}:${iv}:${tag}:${encrypted}`
Serialized(e) == <<e.salt, Colon, e.iv, Colon, e.tag, Colon, e.data>>

\* encryptedData.split(':')
RECURSIVE Split(_)
Split(str) ==
    IF str = <<>> THEN << <<>> >>
    ELSE LET init == Split(SubSeq(str, 1, Len(str) - 1))
             last == str[Len(str)]
         IN  IF last = Colon THEN Append(init, <<>>)
             ELSE [init EXCEPT ![Len(init)] = Append(@, last)]

\* Buffer.from(part, 'hex') stops at the first character that is no hex digit
RECURSIVE FromHex(_)
FromHex(part) ==
    IF part = <<>> \/ Head(part) = Junk THEN <<>>
    ELSE <<Head(part)>> \o FromHex(Tail(part))

\* the content of a buffer as the number the cipher works on
RECURSIVE Value(_)
Value(buffer) ==
    IF buffer = <<>> THEN 0
    ELSE Modulus * Value(SubSeq(buffer, 1, Len(buffer) - 1)) + buffer[Len(buffer)]

Failed == [ok |-> FALSE]

Plain(str) == [ok |-> TRUE, text |-> str]

\* encrypt, from the string given to the string stored
encryptText(str, salt, iv) == Serialized(encrypt(Utf8(str), salt, iv))

\* decrypt, from the string stored to the string returned or the failure
\* thrown; createDecipheriv and setAuthTag refuse an empty buffer
decryptText(stored) ==
    LET parts == Split(stored)
    IN  IF Len(parts) # 4 THEN Failed
        ELSE
        LET salt == FromHex(parts[1])
            iv == FromHex(parts[2])
            tag == FromHex(parts[3])
            encrypted == FromHex(parts[4])
        IN  IF iv = <<>> \/ tag = <<>> THEN Failed
            ELSE
            LET bytes == decrypt([salt |-> Value(salt), iv |-> Value(iv),
                                  tag |-> Value(tag), data |-> Value(encrypted)])
            IN  IF bytes = DecryptError THEN Failed ELSE Plain(FromUtf8(bytes))

\* the strings encrypt can store for str
Stored(str) == {encryptText(str, salt, iv) : salt \in Salts, iv \in Ivs}

\* the strings one edit away from stored: a symbol replaced, lost or added
Corruptions(stored) ==
    LET n == Len(stored)
    IN  {[stored EXCEPT ![i] = x] : i \in 1..n, x \in Symbols}
        \cup {SubSeq(stored, 1, i - 1) \o SubSeq(stored, i + 1, n) : i \in 1..n}
        \cup {SubSeq(stored, 1, i) \o <<x>> \o SubSeq(stored, i + 1, n) :
                 i \in 0..n, x \in Symbols}

Encrypt ==
    /\ \E salt \in Salts, iv \in Ivs : encryptedData' = encryptText(plain, salt, iv)
    /\ decrypted' = NotRun
    /\ UNCHANGED <<twitchConfigs, savedTokens, webhooks, sessions, subscriptions, issued,
                   minted, plain, inflight, page>>

\* the stored string is damaged or tampered with, once
Corrupt ==
    /\ encryptedData \in Stored(plain)
    /\ encryptedData' \in Corruptions(encryptedData) \ {encryptedData}
    /\ decrypted' = NotRun
    /\ UNCHANGED <<twitchConfigs, savedTokens, webhooks, sessions, subscriptions, issued,
                   minted, plain, inflight, page>>

Decrypt ==
    /\ decrypted' = decryptText(encryptedData)
    /\ UNCHANGED <<twitchConfigs, savedTokens, webhooks, sessions, subscriptions, issued,
                   minted, plain, encryptedData, inflight, page>>

\* empty tables, a string to encrypt, nothing stored yet
InitCodec ==
    /\ twitchConfigs = [id \in {"cfgA"} |-> NoRow]
    /\ savedTokens = [id \in {"t1"} |-> NoRow]
    /\ webhooks = [s \in SubIds |-> NoRow]
    /\ sessions = [dc \in DeviceCodes |-> NoSession]
    /\ subscriptions = [s \in SubIds |-> NoRow]
    /\ issued = 0
    /\ minted = [dc \in DeviceCodes |-> 0]
    /\ plain \in Texts
    /\ encryptedData = <<>>
    /\ decrypted = NotRun
    /\ inflight = {}
    /\ PageIdle

NextCodec ==
    \/ Encrypt
    \/ Corrupt
    \/ Decrypt

SpecCodec == InitCodec /\ [][NextCodec]_vars

\* ------------------------------------------------------------------ properties of the codec
\* no code unit of str is a surrogate without its pair
WellFormed(str) == \A i \in DOMAIN str : str[i] # "D800"

\* C21 as stated: decrypt gives back every string encrypt was given, for
\* every salt and iv.
C21_RoundTripEveryString ==
    \A salt \in Salts, iv \in Ivs :
        decryptText(encryptText(plain, salt, iv)) = Plain(plain)

\* C21: decrypt gives back every string of well-formed text that encrypt was
\* given, for every salt and iv.
C21_RoundTripWellFormed ==
    WellFormed(plain) =>
        \A salt \in Salts, iv \in Ivs :
            decryptText(encryptText(plain, salt, iv)) = Plain(plain)

\* a text of two code units was encrypted and decrypted back
C21_Witness ==
    /\ Len(plain) = 2
    /\ WellFormed(plain)
    /\ encryptedData \in Stored(plain)
    /\ decrypted = Plain(plain)

\* the tag of the four parts is the one of their salt, iv and ciphertext
Verifies(parts) ==
    LET key == (MasterKey * (Value(FromHex(parts[1])) + 1)) % Modulus
    IN  Value(FromHex(parts[3])) =
            (key + 3 * Value(FromHex(parts[2])) + 7 * Value(FromHex(parts[4])) + 1) % Modulus

\* C22: decrypt fails when the stored string does not split into four parts
\* and when its tag does not verify, and what it returns is never another
\* text than the bytes that were encrypted.
C22_TamperDetected ==
    LET parts == Split(encryptedData)
        o == decryptText(encryptedData)
    IN  /\ Len(parts) # 4 => o = Failed
        /\ (Len(parts) = 4 /\ ~Verifies(parts)) => o = Failed
        /\ o # Failed => o = Plain(FromUtf8(Utf8(plain)))

\* a damaged string of four parts was refused
C22_Witness ==
    /\ encryptedData # <<>>
    /\ encryptedData \notin Stored(plain)
    /\ Len(Split(encryptedData)) = 4
    /\ decrypted = Failed

\* ------------------------------------------------------------------ handlers step by step
\* A handler gives way to other requests at each await. A request in progress
\* is a record of inflight: its handler (op), the call it awaits (pc), and the
\* local variables it goes on with.
Requests == {"r1", "r2"}

Running(req) == \E c \in inflight : c.req = req

\* the data of prisma.savedToken.update in refreshToken
UpdateData(newTokenData, dateNow) ==
    [accessToken |-> encrypt(newTokenData.accessToken, randomBytes(1), randomBytes(2)),
     refreshToken |-> encrypt(newTokenData.refreshToken, randomBytes(3), randomBytes(4)),
     scopes |-> newTokenData.scopes,
     expiresAt |-> dateNow + newTokenData.expiresIn]

Written_SecretsOnly(row, data) ==
    [row EXCEPT !.accessToken = data.accessToken, !.refreshToken = data.refreshToken]

\* the row after the update statement has written data over it
Written(row, data) ==
    [row EXCEPT !.accessToken = data.accessToken, !.refreshToken = data.refreshToken,
                !.scopes = data.scopes, !.expiresAt = data.expiresAt]

\* refreshToken up to its request to the provider
RefreshStart ==
    \E req \in Requests, u \in Users, id \in TokenIds :
        /\ ~Running(req)
        /\ FindToken(id) # NoRow
        /\ FindToken(id).userId = u
        /\ CanRefresh(FindToken(id))
        /\ decrypt(FindToken(id).refreshToken) # DecryptError
        /\ decrypt(FindConfig(FindToken(id).twitchConfigId).clientSecret) # DecryptError
        /\ inflight' = inflight \cup
               {[req |-> req, op |-> "refreshToken", pc |-> "refreshAccessToken",
                 id |-> id, data |-> NoRow]}
        /\ UNCHANGED <<twitchConfigs, savedTokens, webhooks, sessions, subscriptions,
                       issued, minted, plain, encryptedData, decrypted,
                       page>>

\* the provider answers; on a grant the handler encrypts the new secrets and
\* goes on to the update, on a failure it answers 500
RefreshAnswered ==
    \E c \in inflight :
        /\ c.op = "refreshToken"
        /\ c.pc = "refreshAccessToken"
        /\ \E r \in RefreshResponses : \E dateNow \in ClockAfter(r) :
               LET newTokenData == refreshAccessToken(r)
               IN  IF newTokenData.ok
                   THEN /\ issued < MaxIssued
                        /\ issued' = issued + 1
                        /\ inflight' = (inflight \ {c}) \cup
                               {[c EXCEPT !.pc = "update",
                                          !.data = UpdateData(newTokenData, dateNow)]}
                   ELSE /\ issued' = issued
                        /\ inflight' = inflight \ {c}
        /\ UNCHANGED <<twitchConfigs, savedTokens, webhooks, sessions, subscriptions,
                       minted, plain, encryptedData, decrypted,
                       page>>

\* prisma.savedToken.update: one statement on the row as it is now; it throws
\* when the row is gone
RefreshUpdate ==
    \E c \in inflight :
        /\ c.op = "refreshToken"
        /\ c.pc = "update"
        /\ savedTokens' = IF FindToken(c.id) # NoRow
                          THEN [savedTokens EXCEPT ![c.id] = Written(@, c.data)]
                          ELSE savedTokens
        /\ inflight' = inflight \ {c}
        /\ UNCHANGED <<twitchConfigs, webhooks, sessions, subscriptions,
                       issued, minted, plain, encryptedData, decrypted,
                       page>>

\* The database after u1 has registered a configuration and saved a user
\* token and an app token for it.
InitRefresh ==
    /\ twitchConfigs =
         [id \in {"cfgA"} |->
            [userId |-> "u1", clientId |-> "clientA",
             clientSecret |-> encrypt(1, 1, 1), name |-> NullStr]]
    /\ savedTokens =
         [id \in {"t1", "t2"} |->
            IF id = "t1" THEN SeedToken("u1", "cfgA", "user", 1)
            ELSE SeedToken("u1", "cfgA", "app", 2)]
    /\ webhooks = [s \in SubIds |-> NoRow]
    /\ sessions = [dc \in DeviceCodes |-> NoSession]
    /\ subscriptions = [s \in SubIds |-> NoRow]
    /\ issued = 0
    /\ minted = [dc \in DeviceCodes |-> 0]
    /\ AsideIdle

NextRefresh ==
    \/ RefreshStart
    \/ RefreshAnswered
    \/ RefreshUpdate
    \/ DeleteToken

SpecRefresh == InitRefresh /\ [][NextRefresh]_vars

\* ------------------------------------------------------------------ properties of concurrent refreshes
\* C24: however two refreshes of one saved token interleave, every change of
\* the row writes the access secret, refresh secret, scopes and expiry of one
\* provider answer together and nothing else, so the row always holds the
\* four values of its last update, or the original ones.
C24_RefreshWritesWhole ==
    [][\A id \in TokenIds :
          (/\ savedTokens[id] # NoRow
           /\ savedTokens'[id] # NoRow
           /\ savedTokens'[id] # savedTokens[id]) =>
              \E c \in inflight \ inflight' :
                  /\ c.op = "refreshToken"
                  /\ c.id = id
                  /\ savedTokens'[id] =
                         [savedTokens[id] EXCEPT
                            !.accessToken = c.data.accessToken,
                            !.refreshToken = c.data.refreshToken,
                            !.scopes = c.data.scopes,
                            !.expiresAt = c.data.expiresAt]]_vars

\* two refreshes of t1 were both granted and both wrote the row, and the row
\* holds the secrets of the first grant: its update came last
C24_Witness ==
    /\ inflight = {}
    /\ issued = 2
    /\ savedTokens["t1"] # NoRow
    /\ decrypt(savedTokens["t1"].accessToken) = 3
    /\ decrypt(savedTokens["t1"].refreshToken) = 4


\* ------------------------------------------------------------------ deleting a configuration while a token is minted
\* deleteConfig up to its delete statement: the configuration is read with
\* the count of its saved tokens, and the handler goes on only when the
\* requester owns it and the count is zero
DeleteConfigCheck ==
    \E req \in Requests, u \in Users, id \in ConfigIds :
        /\ ~Running(req)
        /\ FindConfig(id) # NoRow
        /\ FindConfig(id).userId = u
        /\ TokensCount(id) = 0
        /\ inflight' = inflight \cup
               {[req |-> req, op |-> "deleteConfig", pc |-> "delete",
                 id |-> id, data |-> NoRow]}
        /\ UNCHANGED <<twitchConfigs, savedTokens, webhooks, sessions, subscriptions,
                       issued, minted, plain, encryptedData, decrypted,
                       page>>

\* the saved_tokens table after the row of a configuration is deleted:
\* saved_tokens_twitchConfigId_fkey is ON DELETE CASCADE
Cascaded(id) ==
    [t \in DOMAIN savedTokens |->
        IF savedTokens[t] # NoRow /\ savedTokens[t].twitchConfigId = id
        THEN NoRow ELSE savedTokens[t]]

\* prisma.twitchConfig.delete: it throws when the row is gone
DeleteConfigDelete ==
    \E c \in inflight :
        /\ c.op = "deleteConfig"
        /\ c.pc = "delete"
        /\ IF FindConfig(c.id) # NoRow
           THEN /\ twitchConfigs' = [twitchConfigs EXCEPT ![c.id] = NoRow]
                /\ savedTokens' = Cascaded(c.id)
           ELSE UNCHANGED <<twitchConfigs, savedTokens>>
        /\ inflight' = inflight \ {c}
        /\ UNCHANGED <<webhooks, sessions, subscriptions,
                       issued, minted, plain, encryptedData, decrypted,
                       page>>

\* generateAppToken up to its request to the provider
MintStart ==
    \E req \in Requests, u \in Users, id \in ConfigIds, name \in Names :
        /\ ~Running(req)
        /\ FindConfig(id) # NoRow
        /\ FindConfig(id).userId = u
        /\ decrypt(FindConfig(id).clientSecret) # DecryptError
        /\ inflight' = inflight \cup
               {[req |-> req, op |-> "generateAppToken", pc |-> "generateAppAccessToken",
                 id |-> id, data |-> [userId |-> u, name |-> name]]}
        /\ UNCHANGED <<twitchConfigs, savedTokens, webhooks, sessions, subscriptions,
                       issued, minted, plain, encryptedData, decrypted,
                       page>>

\* the provider answers; on a grant the handler encrypts the token and goes
\* on to the create statement, on a failure it answers 500
MintAnswered ==
    \E c \in inflight :
        /\ c.op = "generateAppToken"
        /\ c.pc = "generateAppAccessToken"
        /\ \E r \in AppTokenResponses : \E dateNow \in ClockAfter(r) :
               LET g == generateAppAccessToken(r)
               IN  IF g.ok
                   THEN /\ issued < MaxIssued
                        /\ issued' = issued + 1
                        /\ inflight' = (inflight \ {c}) \cup
                               {[c EXCEPT !.pc = "create",
                                          !.data = AppTokenRow(c.data.userId, c.id,
                                                               c.data.name, g, dateNow)]}
                   ELSE /\ issued' = issued
                        /\ inflight' = inflight \ {c}
        /\ UNCHANGED <<twitchConfigs, savedTokens, webhooks, sessions, subscriptions,
                       minted, plain, encryptedData, decrypted,
                       page>>

\* prisma.savedToken.create: the foreign key refuses a row whose configuration
\* is gone
MintCreate ==
    \E c \in inflight :
        /\ c.op = "generateAppToken"
        /\ c.pc = "create"
        /\ FreeTokenIds # {}
        /\ savedTokens' = IF FindConfig(c.id) # NoRow
                          THEN [savedTokens EXCEPT ![NewTokenId] = c.data]
                          ELSE savedTokens
        /\ inflight' = inflight \ {c}
        /\ UNCHANGED <<twitchConfigs, webhooks, sessions, subscriptions,
                       issued, minted, plain, encryptedData, decrypted,
                       page>>

\* The database after each user has registered a configuration; no token is
\* saved yet.
InitMint ==
    /\ twitchConfigs =
         [id \in {"cfgA", "cfgB"} |->
            [userId |-> IF id = "cfgA" THEN "u1" ELSE "u2",
             clientId |-> IF id = "cfgA" THEN "clientA" ELSE "clientB",
             clientSecret |-> encrypt(1, 1, 1), name |-> NullStr]]
    /\ savedTokens = [id \in {"t1", "t2"} |-> NoRow]
    /\ webhooks = [s \in SubIds |-> NoRow]
    /\ sessions = [dc \in DeviceCodes |-> NoSession]
    /\ subscriptions = [s \in SubIds |-> NoRow]
    /\ issued = 0
    /\ minted = [dc \in DeviceCodes |-> 0]
    /\ AsideIdle

NextMint ==
    \/ DeleteConfigCheck
    \/ DeleteConfigDelete
    \/ MintStart
    \/ MintAnswered
    \/ MintCreate
    \/ DeleteToken

SpecMint == InitMint /\ [][NextMint]_vars

\* C29: in a step that deletes a configuration no saved token is removed.
C29_DeletionRemovesNoToken ==
    [][(\E c \in DOMAIN twitchConfigs :
            twitchConfigs[c] # NoRow /\ twitchConfigs'[c] = NoRow) =>
       \A t \in DOMAIN savedTokens :
            savedTokens[t] # NoRow => savedTokens'[t] = savedTokens[t]]_vars


\* ------------------------------------------------------------------ the token page of the client
\* the device flows one page starts, and the polls of one flow that can await
\* their answer together
MaxFlows == 2

MaxInFlight == 2

\* what a poll request comes back with: the three results the page tells
\* apart, pending, and a rejected promise
PollAnswers == {"pending", "success", "denied", "expired", "error"}

\* a state setter of the component: React drops it once the page is unmounted
SetState(current, value) == IF mounted THEN value ELSE current

\* what the page leaves alone
offPage == <<twitchConfigs, savedTokens, webhooks, sessions, subscriptions, issued, minted,
             plain, encryptedData, decrypted, inflight>>

\* the interval timers left by stopPolling: clearInterval on the ref
Cleared == IF pollingIntervalRef # NoFlow THEN timers \ {pollingIntervalRef} ELSE timers

\* a poll request of a flow that is sent now
NewPoll(flow) ==
    [kind |-> "poll", flow |-> flow,
     k |-> CHOOSE k \in 1..MaxInFlight :
               /\ [kind |-> "poll", flow |-> flow, k |-> k] \notin polls
               /\ \A j \in 1..(k - 1) : [kind |-> "poll", flow |-> flow, k |-> j] \in polls]

CanPoll(flow) ==
    \E k \in 1..MaxInFlight : [kind |-> "poll", flow |-> flow, k |-> k] \notin polls

\* handleStartUserToken up to its request: the form is submitted, which the
\* device-flow overlay and the disabled button prevent while either is on
HandleStartUserToken ==
    /\ mounted
    /\ ~isSubmitting
    /\ ~showDeviceFlowModal
    /\ flows < MaxFlows
    /\ isSubmitting' = TRUE
    /\ flows' = flows + 1
    /\ polls' = polls \cup {[kind |-> "start", flow |-> flows + 1, k |-> 1]}
    /\ UNCHANGED <<pollingIntervalRef, deviceFlow, mounted, showDeviceFlowModal, timers>>
    /\ UNCHANGED offPage

\* startUserToken returns: with a device flow the page shows it and calls
\* startPolling, which polls at once and sets the interval timer; with an
\* error it shows a toast
StartAnswered ==
    \E p \in polls, ok \in BOOLEAN :
        /\ p.kind = "start"
        /\ IF ok
           THEN /\ deviceFlow' = SetState(deviceFlow, p.flow)
                /\ showDeviceFlowModal' = SetState(showDeviceFlowModal, TRUE)
                /\ polls' = (polls \ {p}) \cup {NewPoll(p.flow)}
                /\ timers' = timers \cup {p.flow}
                /\ pollingIntervalRef' = p.flow
           ELSE /\ polls' = polls \ {p}
                /\ UNCHANGED <<deviceFlow, showDeviceFlowModal, timers, pollingIntervalRef>>
        /\ isSubmitting' = SetState(isSubmitting, FALSE)
        /\ UNCHANGED <<mounted, flows>>
        /\ UNCHANGED offPage

\* an interval timer fires: poll of the flow it was set for
Tick ==
    \E flow \in timers :
        /\ CanPoll(flow)
        /\ polls' = polls \cup {NewPoll(flow)}
        /\ UNCHANGED <<pollingIntervalRef, deviceFlow, mounted, showDeviceFlowModal,
                       isSubmitting, timers, flows>>
        /\ UNCHANGED offPage

\* pollUserToken returns to poll: on pending nothing is done, on anything
\* else stopPolling clears the timer of the ref and the overlay is closed
PollAnswered ==
    \E p \in polls, answer \in PollAnswers :
        /\ p.kind = "poll"
        /\ polls' = polls \ {p}
        /\ IF answer = "pending"
           THEN UNCHANGED <<timers, pollingIntervalRef, showDeviceFlowModal>>
           ELSE /\ timers' = Cleared
                /\ pollingIntervalRef' = NoFlow
                /\ showDeviceFlowModal' = SetState(showDeviceFlowModal, FALSE)
        /\ UNCHANGED <<deviceFlow, mounted, isSubmitting, flows>>
        /\ UNCHANGED offPage

HandleCancelDeviceFlow ==
    /\ mounted
    /\ showDeviceFlowModal
    /\ timers' = Cleared
    /\ pollingIntervalRef' = NoFlow
    /\ showDeviceFlowModal' = FALSE
    /\ deviceFlow' = NoFlow
    /\ UNCHANGED <<polls, mounted, isSubmitting, flows>>
    /\ UNCHANGED offPage

\* the cleanup of the effect: stopPolling as the page unmounts
Unmount ==
    /\ mounted
    /\ timers' = Cleared
    /\ pollingIntervalRef' = NoFlow
    /\ mounted' = FALSE
    /\ UNCHANGED <<deviceFlow, polls, showDeviceFlowModal, isSubmitting, flows>>
    /\ UNCHANGED offPage

InitPage ==
    /\ twitchConfigs =
         [id \in {"cfgA"} |->
            [userId |-> "u1", clientId |-> "clientA",
             clientSecret |-> encrypt(1, 1, 1), name |-> NullStr]]
    /\ savedTokens = [id \in {"t1"} |-> NoRow]
    /\ webhooks = [s \in SubIds |-> NoRow]
    /\ sessions = [dc \in DeviceCodes |-> NoSession]
    /\ subscriptions = [s \in SubIds |-> NoRow]
    /\ issued = 0
    /\ minted = [dc \in DeviceCodes |-> 0]
    /\ AsideIdle

NextPage ==
    \/ HandleStartUserToken
    \/ StartAnswered
    \/ Tick
    \/ PollAnswered
    \/ HandleCancelDeviceFlow
    \/ Unmount

SpecPage == InitPage /\ [][NextPage]_vars

\* ------------------------------------------------------------------ properties of the poll loop
OneTimer == Cardinality(timers') <= 1

\* after the page is unmounted no interval timer runs, so no poll is sent
UnmountedIsQuiet == ~mounted' => timers' = {}

\* the timer of a flow is cleared only by a cancel, by the unmount, or as a
\* poll of that flow returns; a poll that returns pending clears none, so the
\* flow whose polls all came back pending keeps its timer
ClearedForCause ==
    \A flow \in timers \ timers' :
        \/ showDeviceFlowModal /\ deviceFlow # NoFlow /\ deviceFlow' = NoFlow
        \/ mounted /\ ~mounted'
        \/ \E p \in polls \ polls' : p.kind = "poll" /\ p.flow = flow

\* C27: at most one interval timer runs; a flow keeps polling while its polls
\* come back pending; once a poll comes back with success, denied, expired or
\* an error, or the user cancels, or the page unmounts, no timer is left to
\* send a poll.
C27_PollLoop == [][OneTimer /\ ClearedForCause /\ UnmountedIsQuiet]_vars

====
